---- MODULE Spec2Model ----
(***************************************************************************)
(* Model of the CV personalisation core: the skill normaliser              *)
(* (normalize_skills.py, inlined again in the single-file app), the JD     *)
(* parser and keyword extractor (jd_parser.py) and the snippet retriever   *)
(* (query_snippets).  Texts are sequences of one-character strings so that *)
(* the regular expressions of the source can be evaluated position by      *)
(* position.                                                               *)
(***************************************************************************)
EXTENDS Integers, Sequences, FiniteSets, TLC

VARIABLES
    pc,            \* which operation has run
    impl,          \* the module whose functions run: "app" (the single-file app),
                   \* "jd_parser" or "retrieve" (the standalone modules)
    text,          \* the text given to the operation
    skills_map,    \* the SkillMap in use
    result,        \* normalize_text(text, skills_map)
    result2,       \* normalize_text(result.text, skills_map)
    top_kw,        \* the keyword count n
    keywords,      \* _top_keywords(text, top_kw)
    skills_file,   \* the SkillMap resource: absent, or present with a map
    record,        \* the record parse_jd returns
    raised,        \* the exception the operation raised to its caller; "": none
    index,         \* the documents of the vector index, in the order it returns them
    snippets_file, \* data/snippets.jsonl: absent, or present with its items
    jd_skills,     \* the skill set given to query_snippets
    top_k,         \* the number of snippets asked for
    boosted,       \* query_snippets: the list boosted after boosted.sort
    snippets,      \* the list query_snippets returns
    cv,            \* the cv structure given to write_resume_docx
    doc,           \* the paragraphs and headings write_resume_docx has added
    bullet,        \* the string given to _clean_line
    clean_line,    \* what _clean_line(bullet) returned
    bullets,       \* _extract_bullets of a section under one header, with bullet as its one bullet line
    session,       \* st.session_state: its keys jd, snips and jd_hash; <<>> is None
    snippet_count, \* the value of the Snippets number input
    session_in,    \* history: session as the last script run found it
    parsed         \* history: the last script run called parse_jd

vars == <<pc, impl, text, skills_map, result, result2, top_kw, keywords,
          skills_file, record, raised, index, snippets_file, jd_skills, top_k,
          boosted, snippets, cv, doc, bullet, clean_line, bullets,
          session, snippet_count, session_in, parsed>>

\* the variables of the retriever
retr == <<index, snippets_file, jd_skills, top_k, boosted, snippets>>

\* the variables of the exporter
docx == <<cv, doc>>

\* the variables of the trailing-punctuation trim
trim == <<bullet, clean_line, bullets>>

\* the variables of the page: the session and the Snippets input
ui == <<session, snippet_count, session_in, parsed>>

(***************************************************************************)
(* Characters.  \w of Python's re is modelled on the characters the texts  *)
(* of the model are built from; str.lower() maps the upper-case letters to *)
(* their lower-case form and leaves every other character alone.           *)
(***************************************************************************)
LowerSeq ==
  <<"a", "b", "c", "d", "e", "f", "g", "h", "i", "j", "k", "l", "m", "n", "o",
    "p", "q", "r", "s", "t", "u", "v", "w", "x", "y", "z">>

UpperSeq ==
  <<"A", "B", "C", "D", "E", "F", "G", "H", "I", "J", "K", "L", "M", "N", "O",
    "P", "Q", "R", "S", "T", "U", "V", "W", "X", "Y", "Z">>

Letters == {LowerSeq[i] : i \in 1..Len(LowerSeq)} \cup {UpperSeq[i] : i \in 1..Len(UpperSeq)}

Digits == {"0", "1", "2", "3", "4", "5", "6", "7", "8", "9"}

\* \w
IsWordChar(c) == c \in Letters \cup Digits \cup {"_"}

\* \s, and the characters str.strip() removes
IsSpace(c) == c \in {" ", "\n", "\t", "\r"}

LowerOf == [c \in {UpperSeq[i] : i \in 1..Len(UpperSeq)} |->
               LowerSeq[CHOOSE i \in 1..Len(UpperSeq) : UpperSeq[i] = c]]

UpperOf == [c \in {LowerSeq[i] : i \in 1..Len(LowerSeq)} |->
               UpperSeq[CHOOSE i \in 1..Len(LowerSeq) : LowerSeq[i] = c]]

LowerChar(c) == IF c \in DOMAIN LowerOf THEN LowerOf[c] ELSE c

UpperChar(c) == IF c \in DOMAIN UpperOf THEN UpperOf[c] ELSE c

\* str.lower()
Lower(s) == [i \in 1..Len(s) |-> LowerChar(s[i])]

(***************************************************************************)
(* re: the pattern r"\b" + re.escape(lit) + r"\b".                         *)
(***************************************************************************)
\* is position i of s (1-based) a word character; outside the string: no
WordAt(s, i) == i >= 1 /\ i <= Len(s) /\ IsWordChar(s[i])

\* \b matches in front of position p (p = Len(s) + 1: at the end of s)
Boundary(s, p) == WordAt(s, p - 1) # WordAt(s, p)

\* the mutant of MatchAt that forgets the word boundaries
MatchAtNoBoundary(s, lit, i) ==
    /\ i >= 1
    /\ i + Len(lit) - 1 <= Len(s)
    /\ \A k \in 1..Len(lit) : s[i + k - 1] = lit[k]

\* \b lit \b matches s starting at position i
MatchAt(s, lit, i) ==
    /\ i >= 1
    /\ i + Len(lit) - 1 <= Len(s)
    /\ \A k \in 1..Len(lit) : s[i + k - 1] = lit[k]
    /\ Boundary(s, i)
    /\ Boundary(s, i + Len(lit))

\* re.search(pattern, s) is not None
Search(s, lit) == \E i \in 1..Len(s) : MatchAt(s, lit, i)

\* re.sub(pattern, rep, s): the leftmost non-overlapping matches, left to right
RECURSIVE SubFrom(_, _, _, _)
SubFrom(s, lit, rep, i) ==
    LET hits == {j \in i..Len(s) : MatchAt(s, lit, j)}
    IN  IF hits = {} THEN SubSeq(s, i, Len(s))
        ELSE LET j == CHOOSE x \in hits : \A y \in hits : x <= y
             IN  SubSeq(s, i, j - 1) \o rep \o SubFrom(s, lit, rep, j + Len(lit))

\* the mutant of Sub that replaces the first match only
SubOnce(s, lit, rep) ==
    LET hits == {j \in 1..Len(s) : MatchAt(s, lit, j)}
    IN  IF hits = {} THEN s
        ELSE LET j == CHOOSE x \in hits : \A y \in hits : x <= y
             IN  SubSeq(s, 1, j - 1) \o rep \o SubSeq(s, j + Len(lit), Len(s))

Sub(s, lit, rep) == SubFrom(s, lit, rep, 1)

(***************************************************************************)
(* normalize_text.  A SkillMap is the dict in its iteration order: a       *)
(* sequence of entries [canonical, synonyms] with distinct keys.  The      *)
(* working state is the pair (normalized_text, detected).                  *)
(***************************************************************************)
\* the mutant of SynStep that matches the synonym as written, not lower-cased
SynStepNoLower(st, canonical, syn) ==
    IF Search(st.text, syn)
    THEN [text |-> Sub(st.text, syn, Lower(canonical)),
          detected |-> st.detected \cup {Lower(canonical)}]
    ELSE st

\* the mutant of SynStep whose detected set keeps the last skill only
SynStepOverwrite(st, canonical, syn) ==
    IF Search(st.text, Lower(syn))
    THEN [text |-> Sub(st.text, Lower(syn), Lower(canonical)),
          detected |-> {Lower(canonical)}]
    ELSE st

\* the body of "for syn in synonyms"
SynStep(st, canonical, syn) ==
    IF Search(st.text, Lower(syn))
    THEN [text |-> Sub(st.text, Lower(syn), Lower(canonical)),
          detected |-> st.detected \cup {Lower(canonical)}]
    ELSE st

\* the first n synonyms of one entry, in order
RECURSIVE SynLoop(_, _, _, _)
SynLoop(st, canonical, synonyms, n) ==
    IF n = 0 THEN st
    ELSE SynStep(SynLoop(st, canonical, synonyms, n - 1), canonical, synonyms[n])

\* the body of "for canonical, synonyms in skills_map.items()"
SkillStep(st, entry) ==
    LET st2 == SynLoop(st, entry.canonical, entry.synonyms, Len(entry.synonyms))
    IN  IF Search(st2.text, Lower(entry.canonical))
        THEN [st2 EXCEPT !.detected = @ \cup {Lower(entry.canonical)}]
        ELSE st2

\* the working state after the first n entries of the map
RECURSIVE SkillLoop(_, _, _)
SkillLoop(t, m, n) ==
    IF n = 0 THEN [text |-> Lower(t), detected |-> {}]
    ELSE SkillStep(SkillLoop(t, m, n - 1), m[n])

normalize_text(t, m) == SkillLoop(t, m, Len(m))

(***************************************************************************)
(* _top_keywords.                                                          *)
(***************************************************************************)
_STOPWORDS ==
  {<<"t", "h", "e">>, <<"a", "n", "d">>, <<"o", "r">>, <<"t", "o">>,
   <<"o", "f">>, <<"i", "n">>, <<"o", "n">>, <<"f", "o", "r">>,
   <<"w", "i", "t", "h">>, <<"a">>, <<"a", "n">>, <<"b", "y">>,
   <<"a", "s">>, <<"i", "s">>, <<"a", "r", "e">>, <<"b", "e">>,
   <<"w", "i", "l", "l">>, <<"t", "h", "i", "s">>, <<"t", "h", "a", "t">>,
   <<"w", "e">>, <<"y", "o", "u">>, <<"o", "u", "r">>,
   <<"y", "o", "u", "r">>, <<"a", "t">>, <<"f", "r", "o", "m">>,
   <<"a", "c", "r", "o", "s", "s">>,
   <<"i", "n", "c", "l", "u", "d", "i", "n", "g">>, <<"s", "u", "c", "h">>,
   <<"e", "t", "c">>, <<"a", "b", "o", "u", "t">>, <<"i", "n", "t", "o">>,
   <<"w", "i", "t", "h", "i", "n">>, <<"o", "v", "e", "r">>,
   <<"u", "n", "d", "e", "r">>, <<"m", "o", "r", "e">>,
   <<"m", "o", "s", "t">>, <<"l", "e", "a", "s", "t">>,
   <<"a", "b", "i", "l", "i", "t", "y">>,
   <<"e", "x", "p", "e", "r", "i", "e", "n", "c", "e">>,
   <<"y", "e", "a", "r", "s">>, <<"y", "e", "a", "r">>,
   <<"p", "l", "u", "s">>, <<"e", "t", "c", ".">>,
   <<"r", "e", "s", "p", "o", "n", "s", "i", "b", "i", "l", "i", "t", "i", "e", "s">>,
   <<"r", "e", "q", "u", "i", "r", "e", "m", "e", "n", "t", "s">>,
   <<"p", "r", "e", "f", "e", "r", "r", "e", "d">>, <<"m", "u", "s", "t">>,
   <<"n", "i", "c", "e">>, <<"h", "a", "v", "e">>,
   <<"s", "k", "i", "l", "l", "s">>, <<"r", "o", "l", "e">>,
   <<"j", "o", "b">>,
   <<"d", "e", "s", "c", "r", "i", "p", "t", "i", "o", "n">>,
   <<"p", "o", "s", "i", "t", "i", "o", "n">>,
   <<"c", "a", "n", "d", "i", "d", "a", "t", "e">>,
   <<"i", "d", "e", "a", "l">>, <<"w", "o", "r", "k">>,
   <<"w", "o", "r", "k", "i", "n", "g">>}

\* [A-Za-z0-9\+\#\.]
IsTokenChar(c) == c \in Letters \cup Digits \cup {"+", "#", "."}

MinTokenLen == 3

\* a finished run of token characters is a match when it has {3,} characters
Flush(cur) == IF Len(cur) >= MinTokenLen THEN <<cur>> ELSE <<>>

\* re.findall(r"[A-Za-z0-9\+\#\.]{3,}", s): the maximal runs of token characters
RECURSIVE FindTokens(_, _)
FindTokens(s, i) ==
    LET starts == {a \in i..Len(s) : IsTokenChar(s[a])}
    IN  IF starts = {} THEN <<>>
        ELSE LET a == CHOOSE x \in starts : \A y \in starts : x <= y
                 stops == {b \in a..Len(s) : ~IsTokenChar(s[b])} \cup {Len(s) + 1}
                 b == CHOOSE x \in stops : \A y \in stops : x <= y
             IN  Flush(SubSeq(s, a, b - 1)) \o FindTokens(s, b)

\* freq[w] = freq.get(w, 0) + 1 on the insertion-ordered dict
AddWord(freq, w) ==
    IF \E k \in 1..Len(freq) : freq[k].w = w
    THEN [k \in 1..Len(freq) |->
             IF freq[k].w = w THEN [w |-> w, n |-> freq[k].n + 1] ELSE freq[k]]
    ELSE Append(freq, [w |-> w, n |-> 1])

\* the mutant of FreqLoop that counts the stopwords too
RECURSIVE FreqLoopAll(_, _)
FreqLoopAll(words, k) ==
    IF k = 0 THEN <<>> ELSE AddWord(FreqLoopAll(words, k - 1), words[k])

\* for w in words: the table after the first k words
RECURSIVE FreqLoop(_, _)
FreqLoop(words, k) ==
    IF k = 0 THEN <<>>
    ELSE IF words[k] \in _STOPWORDS THEN FreqLoop(words, k - 1)
    ELSE AddWord(FreqLoop(words, k - 1), words[k])

\* the mutant of InsertByFreq that puts an item in front of its equals
InsertByFreqTiesFirst(sorted, x) ==
    LET p == Cardinality({k \in 1..Len(sorted) : sorted[k].n > x.n})
    IN  SubSeq(sorted, 1, p) \o <<x>> \o SubSeq(sorted, p + 1, Len(sorted))

\* x goes behind every item whose count is at least its own
InsertByFreq(sorted, x) ==
    LET p == Cardinality({k \in 1..Len(sorted) : sorted[k].n >= x.n})
    IN  SubSeq(sorted, 1, p) \o <<x>> \o SubSeq(sorted, p + 1, Len(sorted))

\* sorted(freq.items(), key=lambda x: -x[1]): stable, descending count
RECURSIVE SortedByFreq(_, _)
SortedByFreq(freq, k) ==
    IF k = 0 THEN <<>> ELSE InsertByFreq(SortedByFreq(freq, k - 1), freq[k])

\* the mutant of PySlice that does not cut
PySliceAll(seq, n) == seq

\* seq[:n] of Python, n negative included
PySlice(seq, n) ==
    IF n >= 0 THEN SubSeq(seq, 1, IF n < Len(seq) THEN n ELSE Len(seq))
    ELSE SubSeq(seq, 1, IF Len(seq) + n > 0 THEN Len(seq) + n ELSE 0)

_top_keywords(t, n) ==
    LET words == FindTokens(Lower(t), 1)
        freq == FreqLoop(words, Len(words))
        ranked == SortedByFreq(freq, Len(freq))
    IN  PySlice([k \in 1..Len(ranked) |-> ranked[k].w], n)

(***************************************************************************)
(* jd_parser: string helpers.                                              *)
(***************************************************************************)
RECURSIVE LStrip(_)
LStrip(s) == IF s # <<>> /\ IsSpace(Head(s)) THEN LStrip(Tail(s)) ELSE s

RECURSIVE RStrip(_)
RStrip(s) ==
    IF s # <<>> /\ IsSpace(s[Len(s)]) THEN RStrip(SubSeq(s, 1, Len(s) - 1)) ELSE s

\* the mutant of Strip that trims nothing
StripNone(s) == s

\* str.strip()
Strip(s) == RStrip(LStrip(s))

\* str.splitlines(): a line ends at "\n", "\r" or "\r\n"; no empty last line
RECURSIVE SplitLines(_, _)
SplitLines(s, i) ==
    IF i > Len(s) THEN <<>>
    ELSE LET stops == {e \in i..Len(s) : s[e] \in {"\n", "\r"}} \cup {Len(s) + 1}
             e == CHOOSE x \in stops : \A y \in stops : x <= y
             next == IF e < Len(s) /\ s[e] = "\r" /\ s[e + 1] = "\n" THEN e + 2 ELSE e + 1
         IN  <<SubSeq(s, i, e - 1)>> \o SplitLines(s, next)

\* the character class of the trailing-punctuation trim: the app strips an em
\* dash, jd_parser.py an en dash
TrailChars(ver) ==
    {";", ",", ":", ".", "-"} \cup (IF ver = "app" THEN {"emdash"} ELSE {"endash"})

RECURSIVE DropTrail(_, _)
DropTrail(s, ver) ==
    IF s # <<>> /\ s[Len(s)] \in TrailChars(ver)
    THEN DropTrail(SubSeq(s, 1, Len(s) - 1), ver)
    ELSE s

_clean_line(s, ver) == Strip(DropTrail(Strip(s), ver))

_sentence_case(s) ==
    LET t == Strip(s)
    IN  IF t = <<>> THEN t ELSE <<UpperChar(t[1])>> \o Tail(t)

(***************************************************************************)
(* jd_parser: _extract_bullets.  A header pattern is a set of alternatives, *)
(* each a sequence of lower-case characters and SepStar for [-\s]*; the    *)
(* search ignores case.                                                    *)
(***************************************************************************)
SepStar == "[-\\s]*"

RECURSIVE MatchPatAt(_, _, _, _)
MatchPatAt(s, pat, i, k) ==
    IF k > Len(pat) THEN TRUE
    ELSE IF pat[k] = SepStar
         THEN \E j \in i..(Len(s) + 1) :
                 /\ \A x \in i..(j - 1) : s[x] = "-" \/ IsSpace(s[x])
                 /\ MatchPatAt(s, pat, j, k + 1)
    ELSE i <= Len(s) /\ LowerChar(s[i]) = pat[k] /\ MatchPatAt(s, pat, i + 1, k + 1)

\* re.search(header_regex, text, re.I).start(), 1-based; 0: no match
HeaderStart(s, header) ==
    LET hits == {i \in 1..Len(s) : \E pat \in header : MatchPatAt(s, pat, i, 1)}
    IN  IF hits = {} THEN 0 ELSE CHOOSE i \in hits : \A j \in hits : i <= j

ResponsibilitiesHeader ==
    {<<"r", "e", "s", "p", "o", "n", "s", "i", "b", "i", "l", "i", "t", "i", "e", "s">>,
     <<"w", "h", "a", "t", " ", "y", "o", "u", "'", "l", "l", " ", "d", "o">>,
     <<"w", "h", "a", "t", " ", "y", "o", "u", " ", "w", "i", "l", "l", " ", "d", "o">>,
     <<"d", "u", "t", "i", "e", "s">>,
     <<"r", "o", "l", "e", " ", "a", "n", "d", " ", "r", "e", "s", "p", "o", "n", "s", "i", "b", "i", "l", "i", "t", "i", "e", "s">>}

MustHavesHeader ==
    {<<"r", "e", "q", "u", "i", "r", "e", "m", "e", "n", "t", "s">>,
     <<"m", "u", "s", "t", SepStar, "h", "a", "v", "e">>,
     <<"q", "u", "a", "l", "i", "f", "i", "c", "a", "t", "i", "o", "n", "s">>,
     <<"r", "e", "q", "u", "i", "r", "e", "d">>}

NiceToHavesHeader ==
    {<<"n", "i", "c", "e", SepStar, "t", "o", SepStar, "h", "a", "v", "e">>,
     <<"p", "r", "e", "f", "e", "r", "r", "e", "d">>,
     <<"b", "o", "n", "u", "s">>,
     <<"g", "o", "o", "d", " ", "t", "o", " ", "h", "a", "v", "e">>}

_SECTION_HEADERS ==
    [responsibilities |-> ResponsibilitiesHeader,
     must_haves |-> MustHavesHeader,
     nice_to_haves |-> NiceToHavesHeader]

\* [\-*\u2022]
IsMarker(c) == c \in {"-", "*", "bullet"}

\* (?:\r?\n|\r)\s*([\-*\u2022].+?): where group 1 can start: a marker that has
\* a character behind it and only white space back to a line break
GroupStarts(s) ==
    {q \in 2..(Len(s) - 1) :
        /\ IsMarker(s[q])
        /\ \E p \in 1..(q - 1) :
              /\ s[p] \in {"\n", "\r"}
              /\ \A x \in (p + 1)..(q - 1) : IsSpace(s[x])}

\* (?:\n\s*\n|$) matches in front of position e
BlockEndsAt(s, e) ==
    \/ e = Len(s) + 1
    \/ e = Len(s) /\ s[e] = "\n"
    \/ /\ e <= Len(s)
       /\ s[e] = "\n"
       /\ \E f \in (e + 1)..Len(s) :
             s[f] = "\n" /\ \A x \in (e + 1)..(f - 1) : IsSpace(s[x])

\* m.group(1) of the first match in section; <<>> when there is none
BulletsBlock(s) ==
    LET starts == GroupStarts(s)
    IN  IF starts = {} THEN <<>>
        ELSE LET q == CHOOSE i \in starts : \A j \in starts : i <= j
                 ends == {e \in (q + 2)..(Len(s) + 1) : BlockEndsAt(s, e)}
                 e == CHOOSE i \in ends : \A j \in ends : i <= j
             IN  SubSeq(s, q, e - 1)

\* the length of the match of ^\s*[\-*\u2022]\s+ on line; 0: no match
MarkerPrefix(line) ==
    LET a == Len(line) - Len(LStrip(line))
    IN  IF a < Len(line) /\ IsMarker(line[a + 1])
        THEN LET rest == SubSeq(line, a + 2, Len(line))
                 b == Len(rest) - Len(LStrip(rest))
             IN  IF b >= 1 THEN a + 1 + b ELSE 0
        ELSE 0

\* what one line of the block appends to out
BulletItem(line, ver) ==
    LET n == MarkerPrefix(line)
        cleaned == Strip(SubSeq(line, n + 1, Len(line)))
    IN  IF n = 0 \/ cleaned = <<>> THEN <<>> ELSE <<_clean_line(cleaned, ver)>>

RECURSIVE BulletItems(_, _, _)
BulletItems(lines, k, ver) ==
    IF k = 0 THEN <<>>
    ELSE BulletItems(lines, k - 1, ver) \o BulletItem(Strip(lines[k]), ver)

_extract_bullets(t, header, ver) ==
    LET start == HeaderStart(t, header)
        section == SubSeq(t, start, Len(t))
        lines == SplitLines(BulletsBlock(section), 1)
    IN  IF start = 0 THEN <<>> ELSE BulletItems(lines, Len(lines), ver)

\* the mutant of _normalize_lines that leaves out the sentence case
NormalizeLinesNoCase(lines, m) ==
    [k \in 1..Len(lines) |-> normalize_text(lines[k], m).text]

_normalize_lines(lines, m) ==
    [k \in 1..Len(lines) |-> _sentence_case(normalize_text(lines[k], m).text)]

(***************************************************************************)
(* jd_parser: the title, company, location and seniority heuristics.       *)
(***************************************************************************)
\* ^ of (?m) matches in front of position p
LineStart(s, p) == p = 1 \/ (p >= 2 /\ p - 1 <= Len(s) /\ s[p - 1] = "\n")

\* the position behind the longest run of white space that starts at i
RECURSIVE SkipSpace(_, _)
SkipSpace(s, i) == IF i <= Len(s) /\ IsSpace(s[i]) THEN SkipSpace(s, i + 1) ELSE i

\* the position of the next "\n" at or behind q, or of the end of s
RECURSIVE LineEnd(_, _)
LineEnd(s, q) == IF q <= Len(s) /\ s[q] # "\n" THEN LineEnd(s, q + 1) ELSE q

\* the lower-case literal lit matches s at position i, case ignored
LiteralAt(s, lit, i) ==
    /\ i >= 1
    /\ i + Len(lit) - 1 <= Len(s)
    /\ \A k \in 1..Len(lit) : LowerChar(s[i + k - 1]) = lit[k]

\* re.search(lit, s, re.I) is not None
Contains(s, lit) == \E i \in 1..Len(s) : LiteralAt(s, lit, i)

\* the start of group 1 of (?im)^\s*label\s*[:\-]\s*(.+)$ matched at p; 0: no
\* match.  The last \s* is greedy and gives back what (.+) needs, and "."
\* does not match "\n".
LabelGroupStart(s, label, p) ==
    LET a == SkipSpace(s, p)
        c == SkipSpace(s, a + Len(label))
        e == SkipSpace(s, c + 1)
        qs == {q \in (c + 1)..e : q <= Len(s) /\ s[q] # "\n"}
    IN  IF /\ LineStart(s, p)
           /\ LiteralAt(s, label, a)
           /\ c <= Len(s)
           /\ s[c] \in {":", "-"}
           /\ qs # {}
        THEN CHOOSE q \in qs : \A r \in qs : r <= q
        ELSE 0

\* m = re.search(r"(?im)^\s*label\s*[:\-]\s*(.+)$", s) and its group 1
LabelSearch(s, label) ==
    LET hits == {p \in 1..Len(s) : LabelGroupStart(s, label, p) # 0}
    IN  IF hits = {} THEN [found |-> FALSE, group |-> <<>>]
        ELSE LET p == CHOOSE i \in hits : \A j \in hits : i <= j
                 q == LabelGroupStart(s, label, p)
             IN  [found |-> TRUE, group |-> SubSeq(s, q, LineEnd(s, q) - 1)]

\* len(s.split())
WordCount(s) ==
    Cardinality({i \in 1..Len(s) : ~IsSpace(s[i]) /\ (i = 1 \/ IsSpace(s[i - 1]))})

\* if l.strip()
NonEmptyLine(l) == Strip(l) # <<>>

\* [l.strip() for l in text.splitlines() if l.strip()]
NonEmptyLines(lines) ==
    LET kept == SelectSeq(lines, NonEmptyLine)
    IN  [k \in 1..Len(kept) |-> Strip(kept[k])]

TitleMaxWords == 12

_extract_title(t, ver) ==
    LET m == LabelSearch(t, <<"t", "i", "t", "l", "e">>)
        lines == NonEmptyLines(SplitLines(t, 1))
    IN  IF m.found THEN _clean_line(m.group, ver)
        ELSE IF /\ lines # <<>>
                /\ WordCount(lines[1]) <= TitleMaxWords
                /\ ~Contains(lines[1], <<"c", "o", "m", "p", "a", "n", "y">>)
                /\ ~Contains(lines[1], <<"a", "b", "o", "u", "t", " ", "u", "s">>)
                /\ ~Contains(lines[1], <<"w", "h", "o", " ", "w", "e", " ", "a", "r", "e">>)
             THEN _clean_line(lines[1], ver)
        ELSE <<>>

\* [A-Za-z0-9&\-\s]
IsCompanyChar(c) == c \in Letters \cup Digits \cup {"&", "-"} \/ IsSpace(c)

CompanyMinRest == 2

CompanyMaxRest == 40

\* the position behind the longest run of company characters that starts at i
RECURSIVE SkipCompany(_, _)
SkipCompany(s, i) ==
    IF i <= Len(s) /\ IsCompanyChar(s[i]) THEN SkipCompany(s, i + 1) ELSE i

\* group 1 of (?im)about\s+([A-Z][A-Za-z0-9&\-\s]{2,40}) matched at i, as
\* <<first, last>>; <<0, 0>>: no match.  Case is ignored, [A-Z] included.
AboutGroup(s, i) ==
    LET a == SkipSpace(s, i + 5)
        run == SkipCompany(s, a + 1) - (a + 1)
    IN  IF /\ LiteralAt(s, <<"a", "b", "o", "u", "t">>, i)
           /\ a > i + 5
           /\ a <= Len(s)
           /\ s[a] \in Letters
           /\ run >= CompanyMinRest
        THEN <<a, a + (IF run <= CompanyMaxRest THEN run ELSE CompanyMaxRest)>>
        ELSE <<0, 0>>

_extract_company(t, ver) ==
    LET m == LabelSearch(t, <<"c", "o", "m", "p", "a", "n", "y">>)
        hits == {i \in 1..Len(t) : AboutGroup(t, i) # <<0, 0>>}
    IN  IF m.found THEN _clean_line(m.group, ver)
        ELSE IF hits # {}
             THEN LET i == CHOOSE x \in hits : \A y \in hits : x <= y
                  IN  _clean_line(SubSeq(t, AboutGroup(t, i)[1], AboutGroup(t, i)[2]), ver)
        ELSE <<>>

\* (singapore|london|new york|sydney|remote|hybrid|onsite)
LocationCues ==
    {<<"s", "i", "n", "g", "a", "p", "o", "r", "e">>,
     <<"l", "o", "n", "d", "o", "n">>,
     <<"n", "e", "w", " ", "y", "o", "r", "k">>,
     <<"s", "y", "d", "n", "e", "y">>,
     <<"r", "e", "m", "o", "t", "e">>,
     <<"h", "y", "b", "r", "i", "d">>,
     <<"o", "n", "s", "i", "t", "e">>}

\* \b cue \b matches s at position i, case ignored
CueAt(s, cue, i) ==
    LiteralAt(s, cue, i) /\ Boundary(s, i) /\ Boundary(s, i + Len(cue))

\* str.title(): a letter behind a letter is lower-cased, any other letter
\* upper-cased
Title(s) ==
    [i \in 1..Len(s) |->
        IF i > 1 /\ s[i - 1] \in Letters THEN LowerChar(s[i]) ELSE UpperChar(s[i])]

_extract_location(t, ver) ==
    LET m == LabelSearch(t, <<"l", "o", "c", "a", "t", "i", "o", "n">>)
        hits == {i \in 1..Len(t) : \E cue \in LocationCues : CueAt(t, cue, i)}
    IN  IF m.found THEN _clean_line(m.group, ver)
        ELSE IF hits # {}
             THEN LET i == CHOOSE x \in hits : \A y \in hits : x <= y
                      cue == CHOOSE c \in LocationCues : CueAt(t, c, i)
                  IN  Title(SubSeq(t, i, i + Len(cue) - 1))
        ELSE <<>>

\* the positions behind the matches of pat[k..] that start at position i
RECURSIVE MatchPatEnds(_, _, _, _)
MatchPatEnds(s, pat, i, k) ==
    IF k > Len(pat) THEN {i}
    ELSE IF pat[k] = SepStar
         THEN UNION {MatchPatEnds(s, pat, j, k + 1) :
                        j \in {x \in i..(Len(s) + 1) :
                                  \A y \in i..(x - 1) : s[y] = "-" \/ IsSpace(s[y])}}
    ELSE IF i <= Len(s) /\ LowerChar(s[i]) = pat[k]
         THEN MatchPatEnds(s, pat, i + 1, k + 1)
    ELSE {}

\* re.search(r"\b(alt|alt|...)\b", s, re.I) is not None
SearchWords(s, alts) ==
    \E i \in 1..Len(s) : \E pat \in alts : \E e \in MatchPatEnds(s, pat, i, 1) :
        Boundary(s, i) /\ Boundary(s, e)

_SENIORITY_MAP ==
    <<[pat |-> {<<"p", "r", "i", "n", "c", "i", "p", "a", "l">>,
                <<"l", "e", "a", "d">>,
                <<"s", "t", "a", "f", "f">>},
       label |-> "Principal/Lead"],
      [pat |-> {<<"s", "e", "n", "i", "o", "r">>, <<"s", "r", ".">>},
       label |-> "Senior"],
      [pat |-> {<<"m", "i", "d", SepStar, "l", "e", "v", "e", "l">>,
                <<"i", "n", "t", "e", "r", "m", "e", "d", "i", "a", "t", "e">>},
       label |-> "Mid"],
      [pat |-> {<<"j", "u", "n", "i", "o", "r">>, <<"j", "r", ".">>},
       label |-> "Junior"]>>

\* the mutant of SeniorityFrom that lets the last matching rule win
RECURSIVE SeniorityLast(_, _)
SeniorityLast(t, k) ==
    IF k > Len(_SENIORITY_MAP) THEN ""
    ELSE IF SeniorityLast(t, k + 1) # "" THEN SeniorityLast(t, k + 1)
    ELSE IF SearchWords(t, _SENIORITY_MAP[k].pat) THEN _SENIORITY_MAP[k].label
    ELSE ""

\* for pat, label in _SENIORITY_MAP: the rules from k on
RECURSIVE SeniorityFrom(_, _)
SeniorityFrom(t, k) ==
    IF k > Len(_SENIORITY_MAP) THEN ""
    ELSE IF SearchWords(t, _SENIORITY_MAP[k].pat) THEN _SENIORITY_MAP[k].label
    ELSE SeniorityFrom(t, k + 1)

_guess_seniority(t) == SeniorityFrom(t, 1)

(***************************************************************************)
(* The SkillMap resource and parse_jd.                                     *)
(***************************************************************************)
\* normalize_skills.load_skills_map: raises FileNotFoundError when the file is
\* absent; json.load raises on a file that is not JSON
load_skills_map(file) ==
    IF ~file.exists THEN [raised |-> "FileNotFoundError", map |-> <<>>]
    ELSE IF ~file.valid THEN [raised |-> "JSONDecodeError", map |-> <<>>]
    ELSE [raised |-> "", map |-> file.map]

\* the mutant of _safe_load_skills_map that catches nothing
SafeLoadNoCatch(file) == load_skills_map(file)

\* jd_parser._safe_load_skills_map: the empty map on FileNotFoundError
_safe_load_skills_map(file) ==
    IF load_skills_map(file).raised = "FileNotFoundError"
    THEN [raised |-> "", map |-> <<>>]
    ELSE load_skills_map(file)

\* the app's load_skills_map: the empty map when the file is absent
app_load_skills_map(file) ==
    IF ~file.exists THEN [raised |-> "", map |-> <<>>]
    ELSE IF ~file.valid THEN [raised |-> "JSONDecodeError", map |-> <<>>]
    ELSE [raised |-> "", map |-> file.map]

\* the load that comes before parse_jd builds the record
LoadedMap(file, ver) ==
    IF ver = "app" THEN app_load_skills_map(file) ELSE _safe_load_skills_map(file)

MustHavesCap == 15

NiceToHavesCap == 15

ResponsibilitiesCap == 30

DefaultTopKw == 30

\* sorted(detected_skills): the set is kept, its presentation order is not
\* modelled
parse_jd(t, m, n, ver) ==
    LET jd_text == Strip(t)
        norm == normalize_text(jd_text, m)
    IN  [title |-> _extract_title(jd_text, ver),
         company |-> _extract_company(jd_text, ver),
         location |-> _extract_location(jd_text, ver),
         seniority |-> _guess_seniority(jd_text),
         must_haves |->
             PySlice(_normalize_lines(_extract_bullets(jd_text, MustHavesHeader, ver), m),
                     MustHavesCap),
         nice_to_haves |->
             PySlice(_normalize_lines(_extract_bullets(jd_text, NiceToHavesHeader, ver), m),
                     NiceToHavesCap),
         responsibilities |->
             PySlice(_normalize_lines(_extract_bullets(jd_text, ResponsibilitiesHeader, ver), m),
                     ResponsibilitiesCap),
         keywords |-> _top_keywords(norm.text, n),
         normalized_skills |-> norm.detected,
         normalized_text |-> norm.text]

(***************************************************************************)
(* The retriever.  A stored snippet is [doc, meta, dist]: its text, its    *)
(* metadata ([given |-> FALSE]: None) and its distance to the query.       *)
(* Scores are fractions [num, den] with den > 0.                           *)
(***************************************************************************)
MaxResults == 50

BonusDivisor == 4

Min2(a, b) == IF a <= b THEN a ELSE b

\* the mutant of _overlap_score whose union counts the shared names twice
OverlapScoreSum(snippet_meta, skills) ==
    LET tags == IF snippet_meta.given THEN {Lower(t) : t \in snippet_meta.tags} ELSE {}
        inter == Cardinality(tags \cap skills)
        union == Cardinality(tags) + Cardinality(skills)
    IN  [num |-> inter, den |-> IF union = 0 THEN 1 ELSE union]

_overlap_score(snippet_meta, skills) ==
    LET tags == IF snippet_meta.given THEN {Lower(t) : t \in snippet_meta.tags} ELSE {}
        inter == Cardinality(tags \cap skills)
        union == Cardinality(tags \cup skills)
    IN  [num |-> inter, den |-> IF union = 0 THEN 1 ELSE union]

\* base + 0.25 * bonus with base = 1.0 / (1.0 + d)
Composite(d, bonus) ==
    [num |-> BonusDivisor * bonus.den + bonus.num * (1 + d),
     den |-> BonusDivisor * bonus.den * (1 + d)]

ScoreGE(x, y) == x.num * y.den >= y.num * x.den

\* the mutant of InsertByScore that puts an item in front of its equals
InsertByScoreTiesFirst(sorted, b) ==
    LET p == Cardinality({k \in 1..Len(sorted) :
                            ScoreGE(sorted[k].score, b.score) /\ ~ScoreGE(b.score, sorted[k].score)})
    IN  SubSeq(sorted, 1, p) \o <<b>> \o SubSeq(sorted, p + 1, Len(sorted))

\* b goes behind every item whose score is at least its own
InsertByScore(sorted, b) ==
    LET p == Cardinality({k \in 1..Len(sorted) : ScoreGE(sorted[k].score, b.score)})
    IN  SubSeq(sorted, 1, p) \o <<b>> \o SubSeq(sorted, p + 1, Len(sorted))

\* boosted.sort(key=lambda x: x[2], reverse=True): stable, descending score
RECURSIVE SortBoosted(_, _)
SortBoosted(bs, k) ==
    IF k = 0 THEN <<>> ELSE InsertByScore(SortBoosted(bs, k - 1), bs[k])

\* coll.query(n_results=n): at most n of the stored documents, in the order
\* of the index
Query(store, n) == SubSeq(store, 1, Min2(n, Len(store)))

\* the mutant of Boosted that ranks every stored document, not only the
\* candidates the query was limited to
BoostedUnbounded(store, skills, k) ==
    LET lowered == {Lower(x) : x \in skills}
        bs == [i \in 1..Len(store) |->
                  [doc |-> store[i].doc,
                   meta |-> store[i].meta,
                   bonus |-> _overlap_score(store[i].meta, lowered),
                   score |-> Composite(store[i].dist, _overlap_score(store[i].meta, lowered))]]
    IN  SortBoosted(bs, Len(bs))

\* the list boosted of query_snippets, sorted
Boosted(store, skills, k) ==
    LET res == Query(store, Min2(MaxResults, k * 2))
        lowered == {Lower(x) : x \in skills}
        bs == [i \in 1..Len(res) |->
                  [doc |-> res[i].doc,
                   meta |-> res[i].meta,
                   bonus |-> _overlap_score(res[i].meta, lowered),
                   score |-> Composite(res[i].dist, _overlap_score(res[i].meta, lowered))]]
    IN  SortBoosted(bs, Len(bs))

\* the mutant of TopDocs that returns every candidate
TopDocsAll(bs, k) == [i \in 1..Len(bs) |-> bs[i].doc]

\* [b[0] for b in boosted[:top_k]]
TopDocs(bs, k) == [i \in 1..Min2(k, Len(bs)) |-> bs[i].doc]

\* the app's ensure_chroma_and_index: an empty collection is filled from the
\* snippets file when there is one
ensure_chroma_and_index(store, file) ==
    IF Len(store) = 0 /\ file.exists THEN [raised |-> "", store |-> file.items]
    ELSE [raised |-> "", store |-> store]

\* retrieve.ensure_index: an empty collection is filled from the snippets
\* file, which open() must find; the documents are added without metadata
ensure_index(store, file) ==
    IF Len(store) > 0 THEN [raised |-> "", store |-> store]
    ELSE IF ~file.exists THEN [raised |-> "FileNotFoundError", store |-> store]
    ELSE [raised |-> "",
          store |-> [i \in 1..Len(file.items) |->
                        [file.items[i] EXCEPT !.meta = [given |-> FALSE, tags |-> {}]]]]

(***************************************************************************)
(* Inputs of the normaliser.                                               *)
(***************************************************************************)
MaxTextLen == 3

MaxSkills == 2

TextChars == {"a", "b", "A", " ", "+"}

SeqsUpTo(S, n) == UNION {[1..k -> S] : k \in 0..n}

Texts == SeqsUpTo(TextChars, MaxTextLen)

\* the entries of the maps, two for each canonical name: a plain synonym, a
\* longer word, one ending in a non-word character, an upper-case one for a
\* canonical name that is longer than it, and a list whose second synonym is
\* inside the first
Entries ==
    {[canonical |-> <<"b">>, synonyms |-> <<<<"a">>>>],
     [canonical |-> <<"b">>, synonyms |-> <<<<"a", "b">>>>],
     [canonical |-> <<"c">>, synonyms |-> <<<<"a">>>>],
     [canonical |-> <<"c">>, synonyms |-> <<<<"a", "+">>>>],
     [canonical |-> <<"A", " ", "b">>, synonyms |-> <<<<"B">>>>],
     [canonical |-> <<"A", " ", "b">>, synonyms |-> <<<<"a", "b">>, <<"a">>>>]}

\* dict keys are distinct
DistinctKeys(m) == \A i, j \in 1..Len(m) : i # j => m[i].canonical # m[j].canonical

SkillMaps == {m \in SeqsUpTo(Entries, MaxSkills) : DistinctKeys(m)}

NoResult == [text |-> <<>>, detected |-> {}]

NoSnippetsFile == [exists |-> FALSE, items |-> <<>>]

NoCv == [mode |-> "none"]

\* st.session_state after its initialisation: jd, snips and jd_hash are None
NoSession == [jd |-> <<>>, snips |-> <<>>, jd_hash |-> <<>>]

\* st.number_input("Snippets", min_value=5, max_value=30, value=10, step=5)
DefaultSnippets == 10

NoFile == [exists |-> FALSE, valid |-> FALSE, map |-> <<>>]

NoRecord ==
    [title |-> <<>>, company |-> <<>>, location |-> <<>>, seniority |-> "",
     must_haves |-> <<>>, nice_to_haves |-> <<>>, responsibilities |-> <<>>,
     keywords |-> <<>>, normalized_skills |-> {}, normalized_text |-> <<>>]

(***************************************************************************)
(* The normaliser as a state machine: a text and a SkillMap are given,     *)
(* normalize_text runs on them, and runs again on its own output.          *)
(***************************************************************************)
InitNorm ==
    /\ pc = "start"
    /\ impl = "app"
    /\ text \in Texts
    /\ skills_map \in SkillMaps
    /\ result = NoResult
    /\ result2 = NoResult
    /\ top_kw = 0
    /\ keywords = <<>>
    /\ skills_file = NoFile
    /\ record = NoRecord
    /\ raised = ""
    /\ index = <<>>
    /\ snippets_file = NoSnippetsFile
    /\ jd_skills = {}
    /\ top_k = 0
    /\ boosted = <<>>
    /\ snippets = <<>>
    /\ cv = NoCv
    /\ doc = <<>>
    /\ bullet = <<>>
    /\ clean_line = <<>>
    /\ bullets = <<>>
    /\ session = NoSession
    /\ snippet_count = DefaultSnippets
    /\ session_in = NoSession
    /\ parsed = FALSE

Normalize ==
    /\ pc = "start"
    /\ result' = normalize_text(text, skills_map)
    /\ pc' = "normalized"
    /\ UNCHANGED <<impl, text, skills_map, result2, top_kw, keywords, skills_file, record, raised,
                   retr, docx, trim, ui>>

Renormalize ==
    /\ pc = "normalized"
    /\ result2' = normalize_text(result.text, skills_map)
    /\ pc' = "renormalized"
    /\ UNCHANGED <<impl, text, skills_map, result, top_kw, keywords, skills_file, record, raised,
                   retr, docx, trim, ui>>

\* the same dict with its items in another order
Reorderings(m) ==
    {[i \in 1..Len(m) |-> m[f[i]]] :
        f \in {g \in [1..Len(m) -> 1..Len(m)] :
                  \A i, j \in 1..Len(m) : i # j => g[i] # g[j]}} \ {m}

\* normalize_text on the same text with the entries in another order
NormalizeReordered ==
    /\ pc = "normalized"
    /\ \E m \in Reorderings(skills_map) : result2' = normalize_text(text, m)
    /\ pc' = "reordered"
    /\ UNCHANGED <<impl, text, skills_map, result, top_kw, keywords, skills_file, record, raised,
                   retr, docx, trim, ui>>

NextNorm == Normalize \/ Renormalize \/ NormalizeReordered

SpecNorm == InitNorm /\ [][NextNorm]_vars

(***************************************************************************)
(* The keyword extractor: a text of words and a count n are given and      *)
(* _top_keywords runs on them.                                             *)
(***************************************************************************)
MaxWords == 4

\* stopwords (one upper-case, one with its full stop in the set), the stopword
\* "the" with a full stop (not in the set), two tokens and a word too short
KwWords == {<<"t", "h", "e">>, <<"T", "h", "e">>, <<"e", "t", "c", ".">>, <<"t", "h", "e", ".">>, <<"a", "w", "s">>, <<"c", "+", "+">>, <<"a", "b">>}

RECURSIVE JoinWith(_, _)
JoinWith(ws, sep) ==
    IF ws = <<>> THEN <<>>
    ELSE IF Len(ws) = 1 THEN ws[1]
    ELSE ws[1] \o sep \o JoinWith(Tail(ws), sep)

KwTexts == {JoinWith(ws, <<" ">>) : ws \in SeqsUpTo(KwWords, MaxWords)}

\* the default n = 30, small counts, and a negative count
TopKws == {-1, 0, 1, 2, DefaultTopKw}

InitKw ==
    /\ pc = "start"
    /\ impl = "app"
    /\ text \in KwTexts
    /\ skills_map = <<>>
    /\ result = NoResult
    /\ result2 = NoResult
    /\ top_kw \in TopKws
    /\ keywords = <<>>
    /\ skills_file = NoFile
    /\ record = NoRecord
    /\ raised = ""
    /\ index = <<>>
    /\ snippets_file = NoSnippetsFile
    /\ jd_skills = {}
    /\ top_k = 0
    /\ boosted = <<>>
    /\ snippets = <<>>
    /\ cv = NoCv
    /\ doc = <<>>
    /\ bullet = <<>>
    /\ clean_line = <<>>
    /\ bullets = <<>>
    /\ session = NoSession
    /\ snippet_count = DefaultSnippets
    /\ session_in = NoSession
    /\ parsed = FALSE

TopKeywords ==
    /\ pc = "start"
    /\ keywords' = _top_keywords(text, top_kw)
    /\ pc' = "keywords"
    /\ UNCHANGED <<impl, text, skills_map, result, result2, top_kw, skills_file, record,
                   raised, retr, docx, trim, ui>>

NextKw == TopKeywords

SpecKw == InitKw /\ [][NextKw]_vars

(***************************************************************************)
(* The JD parser: a JD text, the SkillMap resource and a keyword count are *)
(* given; parse_jd loads the map and builds the record.                    *)
(***************************************************************************)
MaxLines == 4

MaxBullets == 31

\* a header line that all three section patterns match, two bullets (one with
\* an upper-case synonym and trailing punctuation), a blank line and a plain
\* line
JdLines == {<<"R", "e", "q", "u", "i", "r", "e", "d", " ", "d", "u", "t", "i", "e", "s", " ", "b", "o", "n", "u", "s", ":">>,
            <<"-", " ", "A", "b", ".">>,
            <<"*", " ", "t", "h", "e", " ", "a", "w", "s">>,
            <<>>,
            <<" ", "x">>}

JdShortTexts == {JoinWith(ls, <<"\n">>) : ls \in SeqsUpTo(JdLines, MaxLines)}

\* bullet k of a long section: "- " and a three-letter word of its own
LongBullet(k) ==
    <<"-", " ", "k", LowerSeq[((k - 1) \div 6) + 1], LowerSeq[((k - 1) % 6) + 1]>>

\* the header line and n bullets under it
LongText(n) ==
    JoinWith(<<<<"R", "e", "q", "u", "i", "r", "e", "d", " ", "d", "u", "t", "i", "e", "s", " ", "b", "o", "n", "u", "s", ":">>>> \o [k \in 1..n |-> LongBullet(k)], <<"\n">>)

JdLongTexts == {LongText(n) : n \in 0..MaxBullets}

MaxCues == 2

\* words that carry a seniority cue, and words that only look like one:
\* "leader" has no word boundary behind "lead", "sr." has none behind the dot
\* unless a word character follows
CueWords == {<<"S", "e", "n", "i", "o", "r">>,
             <<"l", "e", "a", "d">>,
             <<"m", "i", "d", "-", " ", "l", "e", "v", "e", "l">>,
             <<"J", "r", ".", "d", "e", "v">>,
             <<"s", "r", ".">>,
             <<"l", "e", "a", "d", "e", "r">>}

\* up to MaxCues cue words in any order, one space between them
JdCueTexts == {JoinWith(ws, <<" ">>) : ws \in SeqsUpTo(CueWords, MaxCues)}

JdTexts == JdShortTexts \cup JdLongTexts \cup JdCueTexts

JdMap == <<[canonical |-> <<"A", "w", "s">>, synonyms |-> <<<<"a", "b">>, <<"k", "a", "b">>>>]>>

\* absent, not JSON, the empty map, a map
SkillsFiles == {NoFile,
                [exists |-> TRUE, valid |-> FALSE, map |-> <<>>],
                [exists |-> TRUE, valid |-> TRUE, map |-> <<>>],
                [exists |-> TRUE, valid |-> TRUE, map |-> JdMap]}

\* the default n = 30, a small count, and a negative count; a count other than
\* the default is given together with the map
JdTopKws == {-1, 2, DefaultTopKw}

InitParse ==
    /\ pc = "start"
    /\ impl \in {"app", "jd_parser"}
    /\ text \in JdTexts
    /\ skills_map = <<>>
    /\ result = NoResult
    /\ result2 = NoResult
    /\ top_kw \in JdTopKws
    /\ keywords = <<>>
    /\ skills_file \in SkillsFiles
    /\ top_kw # DefaultTopKw => skills_file = [exists |-> TRUE, valid |-> TRUE, map |-> JdMap]
    /\ record = NoRecord
    /\ raised = ""
    /\ index = <<>>
    /\ snippets_file = NoSnippetsFile
    /\ jd_skills = {}
    /\ top_k = 0
    /\ boosted = <<>>
    /\ snippets = <<>>
    /\ cv = NoCv
    /\ doc = <<>>
    /\ bullet = <<>>
    /\ clean_line = <<>>
    /\ bullets = <<>>
    /\ session = NoSession
    /\ snippet_count = DefaultSnippets
    /\ session_in = NoSession
    /\ parsed = FALSE

ParseJd ==
    /\ pc = "start"
    /\ LET loaded == LoadedMap(skills_file, impl)
       IN  /\ raised' = loaded.raised
           /\ skills_map' = loaded.map
           /\ record' = IF loaded.raised = "" THEN parse_jd(text, loaded.map, top_kw, impl)
                        ELSE NoRecord
    /\ pc' = "parsed"
    /\ UNCHANGED <<impl, text, result, result2, top_kw, keywords, skills_file, retr, docx, trim, ui>>

NextParse == ParseJd

SpecParse == InitParse /\ [][NextParse]_vars

(***************************************************************************)
(* The retriever as a state machine: an index, the snippets file, a skill  *)
(* set and top_k are given and query_snippets runs.                        *)
(***************************************************************************)
MaxCandidates == 3

MaxTopK == 2

MaxDist == 2

\* None, no tags, a tag, an upper-case tag with another one
Metas == {[given |-> FALSE, tags |-> {}],
          [given |-> TRUE, tags |-> {}],
          [given |-> TRUE, tags |-> {<<"a">>}],
          [given |-> TRUE, tags |-> {<<"A">>, <<"b">>}]}

\* the documents of an index are told apart by their position; a query hands
\* the candidates back nearest first
Stores ==
    UNION {{[i \in 1..n |-> [doc |-> i, meta |-> c[i][1], dist |-> c[i][2]]] :
               c \in {f \in [1..n -> Metas \X (0..MaxDist)] :
                         \A i \in 1..(n - 1) : f[i][2] <= f[i + 1][2]}} :
           n \in 0..MaxCandidates}

SnippetsFiles ==
    {NoSnippetsFile,
     [exists |-> TRUE,
      items |-> <<[doc |-> 1, meta |-> [given |-> TRUE, tags |-> {}], dist |-> 0],
                  [doc |-> 2, meta |-> [given |-> TRUE, tags |-> {<<"a">>}], dist |-> 1]>>]}

JdSkillSets == {{}, {<<"A">>}, {<<"a">>, <<"b">>}}

\* small counts, and one above MaxResults / 2
TopKs == (0..MaxTopK) \cup {30}

InitRetr ==
    /\ pc = "start"
    /\ impl \in {"app", "retrieve"}
    /\ text = <<>>
    /\ skills_map = <<>>
    /\ result = NoResult
    /\ result2 = NoResult
    /\ top_kw = 0
    /\ keywords = <<>>
    /\ skills_file = NoFile
    /\ record = NoRecord
    /\ raised = ""
    /\ index \in Stores
    /\ snippets_file \in SnippetsFiles
    /\ index # <<>> => snippets_file = NoSnippetsFile
    /\ jd_skills \in JdSkillSets
    /\ top_k \in TopKs
    /\ boosted = <<>>
    /\ snippets = <<>>
    /\ cv = NoCv
    /\ doc = <<>>
    /\ bullet = <<>>
    /\ clean_line = <<>>
    /\ bullets = <<>>
    /\ session = NoSession
    /\ snippet_count = DefaultSnippets
    /\ session_in = NoSession
    /\ parsed = FALSE

\* query_snippets of the app: ensure_chroma_and_index, query, re-rank, cut
AppQuerySnippets ==
    /\ pc = "start"
    /\ impl = "app"
    /\ LET ensured == ensure_chroma_and_index(index, snippets_file)
           bs == Boosted(ensured.store, jd_skills, top_k)
       IN  /\ index' = ensured.store
           /\ raised' = ensured.raised
           /\ boosted' = bs
           /\ snippets' = TopDocs(bs, top_k)
    /\ pc' = "queried"
    /\ UNCHANGED <<impl, text, skills_map, result, result2, top_kw, keywords, skills_file,
                   record, snippets_file, jd_skills, top_k, docx, trim, ui>>

\* query_snippets of retrieve.py: ensure_index, query, the hits as returned
RetrieveQuerySnippets ==
    /\ pc = "start"
    /\ impl = "retrieve"
    /\ LET ensured == ensure_index(index, snippets_file)
           res == Query(ensured.store, top_k)
       IN  /\ index' = ensured.store
           /\ raised' = ensured.raised
           /\ snippets' = IF ensured.raised = "" THEN [i \in 1..Len(res) |-> res[i].doc]
                          ELSE <<>>
    /\ pc' = "queried"
    /\ UNCHANGED <<impl, text, skills_map, result, result2, top_kw, keywords, skills_file,
                   record, snippets_file, jd_skills, top_k, boosted, docx, trim, ui>>

NextRetr == AppQuerySnippets \/ RetrieveQuerySnippets

SpecRetr == InitRetr /\ [][NextRetr]_vars

(***************************************************************************)
(* The exporter write_resume_docx.  A text is a sequence of strings; the   *)
(* document is the sequence of what doc.add_heading and doc.add_paragraph  *)
(* have added, each item with the part of the resume it was added for.     *)
(***************************************************************************)
Item(part, t) == [part |-> part, text |-> t]

\* for idx in to_keep: if 0 <= idx < len(items): doc.add_paragraph(items[idx])
RECURSIVE KeptItems(_, _, _, _)
KeptItems(items, to_keep, part, k) ==
    IF k = 0 THEN <<>>
    ELSE KeptItems(items, to_keep, part, k - 1) \o
         (IF 0 <= to_keep[k] /\ to_keep[k] < Len(items)
          THEN <<Item(part, items[to_keep[k] + 1])>>
          ELSE <<>>)

\* the header block
HeaderItems(template) ==
    IF template.header.given
    THEN <<Item("name", template.header.name),
           Item("title_line", template.header.title_line),
           Item("contact", <<"E: ">> \o template.header.email \o <<" | T: ">> \o
                           template.header.phone \o <<" | IN: ">> \o
                           template.header.linkedin),
           Item("spacing", <<>>)>>
    ELSE <<>>

\* the summary block
SummaryItems(template, selection) ==
    IF template.summary.given
    THEN <<Item("heading", <<"SUMMARY">>),
           Item("summary_paragraph", template.summary.paragraph)>> \o
         KeptItems(template.summary.bullets, selection.summary_bullets_to_keep,
                   "summary_bullet", Len(selection.summary_bullets_to_keep)) \o
         <<Item("spacing", <<>>)>>
    ELSE <<>>

\* skill_key in skills_section
HasKey(section, key) == \E i \in 1..Len(section) : section[i].key = key

\* skills_section[skill_key]
ValueOf(section, key) == section[CHOOSE i \in 1..Len(section) : section[i].key = key].skills

\* the mutant of HighlightedSkills that does not test the key
RECURSIVE HighlightedSkillsUnchecked(_, _, _)
HighlightedSkillsUnchecked(section, keys, k) ==
    IF k = 0 THEN <<>>
    ELSE HighlightedSkillsUnchecked(section, keys, k - 1) \o
         <<Item("skill_key", <<keys[k]>>),
           Item("skill_line",
                IF HasKey(section, keys[k])
                THEN JoinWith(ValueOf(section, keys[k]), <<", ">>) ELSE <<>>)>>

\* for skill_key in skills_to_highlight: if skill_key in skills_section
RECURSIVE HighlightedSkills(_, _, _)
HighlightedSkills(section, keys, k) ==
    IF k = 0 THEN <<>>
    ELSE HighlightedSkills(section, keys, k - 1) \o
         (IF HasKey(section, keys[k])
          THEN <<Item("skill_key", <<keys[k]>>),
                 Item("skill_line", JoinWith(ValueOf(section, keys[k]), <<", ">>))>>
          ELSE <<>>)

\* for skill_category, skills_list in skills_section.items()
RECURSIVE AllSkills(_, _)
AllSkills(section, k) ==
    IF k = 0 THEN <<>>
    ELSE AllSkills(section, k - 1) \o
         <<Item("skill_key", <<section[k].key>>),
           Item("skill_line", JoinWith(section[k].skills, <<", ">>))>>

\* the key skills block
SkillItems(template, selection) ==
    IF template.key_skills # <<>>
    THEN <<Item("heading", <<"KEY SKILLS">>)>> \o
         (IF selection.skills_to_highlight # <<>>
          THEN HighlightedSkills(template.key_skills, selection.skills_to_highlight,
                                 Len(selection.skills_to_highlight))
          ELSE AllSkills(template.key_skills, Len(template.key_skills))) \o
         <<Item("spacing", <<>>)>>
    ELSE <<>>

\* what one item of selection["experience"] adds
ExperienceEntry(experience_list, exp_sel) ==
    LET found == {i \in 1..Len(experience_list) : experience_list[i].id = exp_sel.id}
        exp == experience_list[CHOOSE i \in found : \A j \in found : i <= j]
    IN  IF ~exp_sel.include \/ found = {} THEN <<>>
        ELSE <<Item("experience_entry",
                    exp.company \o <<" | ">> \o exp.title \o <<" | ">> \o exp.dates)>> \o
             KeptItems(exp.bullets, exp_sel.bullets_to_keep, "experience_bullet",
                       Len(exp_sel.bullets_to_keep)) \o
             (IF exp_sel.achievements_to_keep # <<>>
              THEN <<Item("heading", <<"Achievements">>)>> \o
                   KeptItems(exp.achievements, exp_sel.achievements_to_keep, "achievement",
                             Len(exp_sel.achievements_to_keep))
              ELSE <<>>) \o
             <<Item("spacing", <<>>)>>

\* for exp_sel in experience_selection
RECURSIVE ExperienceEntries(_, _, _)
ExperienceEntries(experience_list, experience_selection, k) ==
    IF k = 0 THEN <<>>
    ELSE ExperienceEntries(experience_list, experience_selection, k - 1) \o
         ExperienceEntry(experience_list, experience_selection[k])

\* the experience block
ExperienceItems(template, selection) ==
    IF template.experience # <<>>
    THEN <<Item("heading", <<"EXPERIENCE">>)>> \o
         ExperienceEntries(template.experience, selection.experience,
                           Len(selection.experience))
    ELSE <<>>

\* the training and education block: every item when none is selected
TrainingItems(template, selection) ==
    LET training_list == template.training_and_education
        training_to_keep == selection.training_and_education_to_keep
    IN  IF training_list # <<>>
        THEN <<Item("heading", <<"TRAINING AND EDUCATION">>)>> \o
             (IF training_to_keep # <<>>
              THEN KeptItems(training_list, training_to_keep, "training_item",
                             Len(training_to_keep))
              ELSE [i \in 1..Len(training_list) |-> Item("training_item", training_list[i])])
        ELSE <<>>

\* for exp in cv["experience"] of the legacy format
RECURSIVE LegacyExperience(_, _)
LegacyExperience(experience, k) ==
    IF k = 0 THEN <<>>
    ELSE LegacyExperience(experience, k - 1) \o
         <<Item("experience_entry",
                experience[k].role \o <<" ", "emdash", " ">> \o experience[k].company \o
                <<" (">> \o experience[k].dates \o <<")">>)>> \o
         [i \in 1..Len(experience[k].bullets) |->
             Item("experience_bullet", experience[k].bullets[i])]

\* the legacy format: the cv carries the text itself
LegacyItems(c) ==
    (IF c.headline # <<>> THEN <<Item("name", c.headline)>> ELSE <<>>) \o
    (IF c.summary # <<>> THEN <<Item("summary_paragraph", c.summary)>> ELSE <<>>) \o
    (IF c.skills # <<>>
     THEN <<Item("heading", <<"Skills">>), Item("skill_line", JoinWith(c.skills, <<", ">>))>>
     ELSE <<>>) \o
    (IF c.experience # <<>>
     THEN <<Item("heading", <<"Experience">>)>> \o
          LegacyExperience(c.experience, Len(c.experience))
     ELSE <<>>) \o
    (IF c.education # <<>>
     THEN <<Item("heading", <<"Education">>)>> \o
          [i \in 1..Len(c.education) |-> Item("training_item", c.education[i])]
     ELSE <<>>) \o
    (IF c.certifications # <<>>
     THEN <<Item("heading", <<"Certifications">>)>> \o
          [i \in 1..Len(c.certifications) |-> Item("training_item", c.certifications[i])]
     ELSE <<>>)

\* the document write_resume_docx builds from cv
write_resume_docx(c) ==
    IF c.mode = "template"
    THEN HeaderItems(c.template) \o
         SummaryItems(c.template, c.selection) \o
         SkillItems(c.template, c.selection) \o
         ExperienceItems(c.template, c.selection) \o
         TrainingItems(c.template, c.selection)
    ELSE LegacyItems(c)

(***************************************************************************)
(* The exporter as a state machine: a cv structure is given and            *)
(* write_resume_docx builds the document.                                  *)
(***************************************************************************)
MaxSelected == 2

\* a template with every section, and one with an experience only
Templates ==
    {[header |-> [given |-> TRUE, name |-> <<"Ann">>, title_line |-> <<"Engineer">>,
                  email |-> <<"a@x">>, phone |-> <<"1">>, linkedin |-> <<"in/a">>],
      summary |-> [given |-> TRUE, paragraph |-> <<"para">>,
                   bullets |-> <<<<"sb0">>, <<"sb1">>>>],
      key_skills |-> <<[key |-> "Cloud", skills |-> <<<<"aws">>, <<"gcp">>>>],
                       [key |-> "Data", skills |-> <<<<"sql">>>>]>>,
      experience |-> <<[id |-> "e1", company |-> <<"Acme">>, title |-> <<"Dev">>,
                        dates |-> <<"2020">>, bullets |-> <<<<"b0">>, <<"b1">>>>,
                        achievements |-> <<<<"a0">>>>],
                       [id |-> "e2", company |-> <<"Bolt">>, title |-> <<"Lead">>,
                        dates |-> <<"2022">>, bullets |-> <<<<"c0">>>>,
                        achievements |-> <<>>]>>,
      training_and_education |-> <<<<"BSc">>, <<"Cert">>>>],
     [header |-> [given |-> FALSE, name |-> <<>>, title_line |-> <<>>,
                  email |-> <<>>, phone |-> <<>>, linkedin |-> <<>>],
      summary |-> [given |-> FALSE, paragraph |-> <<>>, bullets |-> <<>>],
      key_skills |-> <<>>,
      experience |-> <<[id |-> "e1", company |-> <<"Acme">>, title |-> <<"Dev">>,
                        dates |-> <<"2020">>, bullets |-> <<<<"b0">>>>,
                        achievements |-> <<>>]>>,
      training_and_education |-> <<>>]}

\* index lists: in range, and negative, in range and past the end
SummaryKeeps == {<<1, 0>>, <<-1, 0, 5>>}

\* skill keys: none, a key of the template, an unknown key with a known one
SkillPicks == {<<>>, <<"Cloud">>, <<"Nope", "Data">>}

\* one item of selection["experience"]: a known or unknown id with its index
\* lists, and one item that is not included
ExperiencePicks ==
    {[id |-> i, include |-> TRUE, bullets_to_keep |-> k[1], achievements_to_keep |-> k[2]] :
        i \in {"e1", "e2", "zz"},
        k \in {<<<<>>, <<>>>>, <<<<1, 9>>, <<0>>>>, <<<<-1>>, <<3>>>>}}
    \cup {[id |-> "e1", include |-> FALSE, bullets_to_keep |-> <<1, 9>>,
           achievements_to_keep |-> <<0>>]}

\* none (all items are shown), and in range with one past the end
TrainingKeeps == {<<>>, <<1, 7>>}

Selections ==
    {[summary_bullets_to_keep |-> sb, skills_to_highlight |-> sk, experience |-> ex,
      training_and_education_to_keep |-> tr] :
        sb \in SummaryKeeps, sk \in SkillPicks, ex \in SeqsUpTo(ExperiencePicks, MaxSelected),
        tr \in TrainingKeeps}

TemplateCvs ==
    {[mode |-> "template", template |-> t, selection |-> sel] :
        t \in Templates, sel \in Selections}

\* a cv without "template" and "selection": the text is in the cv itself
LegacyCvs ==
    {[mode |-> "legacy", headline |-> <<"Ann">>, summary |-> <<"para">>,
      skills |-> <<<<"aws">>, <<"sql">>>>,
      experience |-> <<[role |-> <<"Dev">>, company |-> <<"Acme">>, dates |-> <<"2020">>,
                        bullets |-> <<<<"b0">>>>]>>,
      education |-> <<<<"BSc">>>>, certifications |-> <<<<"Cert">>>>],
     [mode |-> "legacy", headline |-> <<>>, summary |-> <<>>, skills |-> <<>>,
      experience |-> <<>>, education |-> <<>>, certifications |-> <<>>]}

InitDocx ==
    /\ pc = "start"
    /\ impl = "app"
    /\ text = <<>>
    /\ skills_map = <<>>
    /\ result = NoResult
    /\ result2 = NoResult
    /\ top_kw = 0
    /\ keywords = <<>>
    /\ skills_file = NoFile
    /\ record = NoRecord
    /\ raised = ""
    /\ index = <<>>
    /\ snippets_file = NoSnippetsFile
    /\ jd_skills = {}
    /\ top_k = 0
    /\ boosted = <<>>
    /\ snippets = <<>>
    /\ cv \in TemplateCvs \cup LegacyCvs
    /\ doc = <<>>
    /\ bullet = <<>>
    /\ clean_line = <<>>
    /\ bullets = <<>>
    /\ session = NoSession
    /\ snippet_count = DefaultSnippets
    /\ session_in = NoSession
    /\ parsed = FALSE

WriteResumeDocx ==
    /\ pc = "start"
    /\ doc' = write_resume_docx(cv)
    /\ pc' = "written"
    /\ UNCHANGED <<impl, text, skills_map, result, result2, top_kw, keywords, skills_file,
                   record, raised, retr, cv, trim, ui>>

NextDocx == WriteResumeDocx

SpecDocx == InitDocx /\ [][NextDocx]_vars

(***************************************************************************)
(* The trailing-punctuation trim: a line is given to _clean_line, and a    *)
(* section whose one bullet is that line is given to _extract_bullets.     *)
(***************************************************************************)
MaxLineLen == 4

\* a letter, white space, trailing punctuation and the two dashes
TrimChars == {"a", " ", ".", "-", "emdash", "endash"}

TrimLines == SeqsUpTo(TrimChars, MaxLineLen)

\* a header line and one bullet under it
BulletText(l) ==
    <<"R", "e", "q", "u", "i", "r", "e", "d", ":", "\n", "-", " ">> \o l

InitTrim ==
    /\ pc = "start"
    /\ impl \in {"app", "jd_parser"}
    /\ bullet \in TrimLines
    /\ text = BulletText(bullet)
    /\ skills_map = <<>>
    /\ result = NoResult
    /\ result2 = NoResult
    /\ top_kw = 0
    /\ keywords = <<>>
    /\ skills_file = NoFile
    /\ record = NoRecord
    /\ raised = ""
    /\ index = <<>>
    /\ snippets_file = NoSnippetsFile
    /\ jd_skills = {}
    /\ top_k = 0
    /\ boosted = <<>>
    /\ snippets = <<>>
    /\ cv = NoCv
    /\ doc = <<>>
    /\ clean_line = <<>>
    /\ bullets = <<>>
    /\ session = NoSession
    /\ snippet_count = DefaultSnippets
    /\ session_in = NoSession
    /\ parsed = FALSE

CleanLine ==
    /\ pc = "start"
    /\ clean_line' = _clean_line(bullet, impl)
    /\ pc' = "cleaned"
    /\ UNCHANGED <<impl, text, skills_map, result, result2, top_kw, keywords, skills_file,
                   record, raised, retr, docx, bullet, bullets, ui>>

ExtractBullets ==
    /\ pc = "start"
    /\ bullets' = _extract_bullets(text, MustHavesHeader, impl)
    /\ pc' = "extracted"
    /\ UNCHANGED <<impl, text, skills_map, result, result2, top_kw, keywords, skills_file,
                   record, raised, retr, docx, bullet, clean_line, ui>>

NextTrim == CleanLine \/ ExtractBullets

SpecTrim == InitTrim /\ [][NextTrim]_vars

(***************************************************************************)
(* The page: the JD text area, the Snippets input and the generate button. *)
(* Every script run loads the SkillMap; a generate click parses the JD and *)
(* retrieves snippets unless the session holds the hash of the same text.  *)
(***************************************************************************)
\* _hash: the SHA-256 digest of the text as it stands in the text area; two
\* digests are equal exactly when the texts are
_hash(s) == [sha256 |-> s]

\* query_snippets(norm_text, norm_skills, top_k=snippet_count) on the store
\* that ensure_chroma_and_index leaves
SessionSnips(jd_parsed, store, count) ==
    TopDocs(Boosted(store, jd_parsed.normalized_skills, count), count)

\* the mutant of Generate that writes session["jd"] right after parse_jd, in
\* front of the retrieval
GenerateEarlyWrite(sess, jd_text, m, store, count, fails) ==
    LET jd_hash == _hash(jd_text)
        jd_parsed == parse_jd(jd_text, m, DefaultTopKw, "app")
    IN  IF sess.jd_hash # <<jd_hash>>
        THEN IF fails
             THEN [session |-> [sess EXCEPT !.jd = <<jd_parsed>>], parsed |-> TRUE,
                   raised |-> "Exception"]
             ELSE [session |-> [jd |-> <<jd_parsed>>,
                                snips |-> <<SessionSnips(jd_parsed, store, count)>>,
                                jd_hash |-> <<jd_hash>>],
                   parsed |-> TRUE, raised |-> ""]
        ELSE [session |-> sess, parsed |-> FALSE, raised |-> ""]

\* if st.session_state.get("jd_hash") != jd_hash: parse, retrieve, and then
\* the three writes; fails: query_snippets raises, which ends the run in
\* front of the writes
Generate(sess, jd_text, m, store, count, fails) ==
    LET jd_hash == _hash(jd_text)
        jd_parsed == parse_jd(jd_text, m, DefaultTopKw, "app")
    IN  IF sess.jd_hash # <<jd_hash>>
        THEN IF fails
             THEN [session |-> sess, parsed |-> TRUE, raised |-> "Exception"]
             ELSE [session |-> [jd |-> <<jd_parsed>>,
                                snips |-> <<SessionSnips(jd_parsed, store, count)>>,
                                jd_hash |-> <<jd_hash>>],
                   parsed |-> TRUE, raised |-> ""]
        ELSE [session |-> sess, parsed |-> FALSE, raised |-> ""]

MaxSessionDocs == 6

\* an index of MaxSessionDocs documents, nearest first, the last one tagged
\* with the canonical skill of JdMap
SessionStore ==
    [i \in 1..MaxSessionDocs |->
        [doc |-> i,
         meta |-> [given |-> TRUE,
                   tags |-> IF i = MaxSessionDocs THEN {<<"a", "w", "s">>} ELSE {}],
         dist |-> i]]

\* nothing, white space, a JD, the same JD with a space behind it, and a JD
\* with a bullet that names a skill
SessionTexts ==
    {<<>>,
     <<" ">>,
     <<"S", "e", "n", "i", "o", "r", " ", "l", "e", "a", "d">>,
     <<"S", "e", "n", "i", "o", "r", " ", "l", "e", "a", "d", " ">>,
     <<"R", "e", "q", "u", "i", "r", "e", "d", ":", "\n", "-", " ", "A", "b", ".">>}

\* values of the Snippets input: min_value=5, step=5
SnippetCounts == {5, DefaultSnippets}

InitSession ==
    /\ pc = "start"
    /\ impl = "app"
    /\ text = <<>>
    /\ skills_map = <<>>
    /\ result = NoResult
    /\ result2 = NoResult
    /\ top_kw = DefaultTopKw
    /\ keywords = <<>>
    /\ skills_file \in SkillsFiles
    /\ record = NoRecord
    /\ raised = ""
    /\ index \in {<<>>, SessionStore}
    /\ snippets_file \in SnippetsFiles
    /\ index # <<>> => snippets_file = NoSnippetsFile
    /\ jd_skills = {}
    /\ top_k = 0
    /\ boosted = <<>>
    /\ snippets = <<>>
    /\ cv = NoCv
    /\ doc = <<>>
    /\ bullet = <<>>
    /\ clean_line = <<>>
    /\ bullets = <<>>
    /\ session = NoSession
    /\ snippet_count = DefaultSnippets
    /\ session_in = NoSession
    /\ parsed = FALSE

\* the user changes the text of the JD text area
EditJd ==
    /\ text' \in SessionTexts \ {text}
    /\ pc' = "edited"
    /\ UNCHANGED <<impl, skills_map, result, result2, top_kw, keywords, skills_file, record,
                   raised, retr, docx, trim, ui>>

\* the user changes the Snippets input
SetSnippetCount ==
    /\ snippet_count' \in SnippetCounts \ {snippet_count}
    /\ pc' = "edited"
    /\ UNCHANGED <<impl, text, skills_map, result, result2, top_kw, keywords, skills_file,
                   record, raised, retr, docx, trim, session, session_in, parsed>>

\* a script run with gen_clicked: the SkillMap is loaded, the three guards
\* may stop the run, then the JD is parsed and the snippets are retrieved
\* unless the hash is the stored one.  mp and template_profile are read from
\* disk by every run.  What follows in the run writes the keys cv and letter
\* of the session only.
GenerateClick ==
    /\ session_in' = session
    /\ \E mp, template_profile, fails \in BOOLEAN :
          LET loaded == app_load_skills_map(skills_file)
              ensured == ensure_chroma_and_index(index, snippets_file)
              g == Generate(session, text, loaded.map, ensured.store, snippet_count, fails)
          IN  IF loaded.raised # ""
              THEN /\ pc' = "failed"
                   /\ raised' = loaded.raised
                   /\ parsed' = FALSE
                   /\ UNCHANGED <<skills_map, session, index>>
              ELSE IF ~mp \/ Strip(text) = <<>> \/ ~template_profile
              THEN /\ pc' = "stopped"
                   /\ raised' = ""
                   /\ skills_map' = loaded.map
                   /\ parsed' = FALSE
                   /\ UNCHANGED <<session, index>>
              ELSE /\ pc' = IF g.raised = "" THEN "generated" ELSE "failed"
                   /\ raised' = g.raised
                   /\ skills_map' = loaded.map
                   /\ parsed' = g.parsed
                   /\ session' = g.session
                   /\ index' = IF g.parsed THEN ensured.store ELSE index
    /\ UNCHANGED <<impl, text, result, result2, top_kw, keywords, skills_file, record,
                   snippets_file, jd_skills, top_k, boosted, snippets, docx, trim,
                   snippet_count>>

NextSession == EditJd \/ SetSnippetCount \/ GenerateClick

SpecSession == InitSession /\ [][NextSession]_vars

(***************************************************************************)
(* Properties of the normaliser.                                           *)
(***************************************************************************)
\* the working state when the loop reaches entry k of the map
BeforeSkill(k) == SkillLoop(text, skills_map, k - 1)

\* the working state when the loop reaches synonym j of entry k
BeforeSyn(k, j) ==
    SynLoop(BeforeSkill(k), skills_map[k].canonical, skills_map[k].synonyms, j - 1)

\* the (entry, synonym) positions of the map
SynIndex == UNION {{<<k, j>> : j \in 1..Len(skills_map[k].synonyms)} :
                      k \in 1..Len(skills_map)}

SynOf(kj) == Lower(skills_map[kj[1]].synonyms[kj[2]])

CanonOf(kj) == Lower(skills_map[kj[1]].canonical)

\* C1: normalisation is idempotent: normalize_text applied to the text it
\* returned gives the same text and the same detected-skill set.
C1_Idempotent == pc = "renormalized" => result2 = result

\* C2 as claimed: a synonym of S that occurs as a whole word in the input text
\* puts the lower-cased name of S into the detected set.
C2_DetectedFromInput ==
    pc = "normalized" =>
        \A kj \in SynIndex :
            Search(Lower(text), SynOf(kj)) => CanonOf(kj) \in result.detected

\* C2 as amended: a synonym of S that occurs as a whole word in the working
\* text when the loop reaches S puts the lower-cased name of S into the
\* detected set.
C2_DetectedAtTurn ==
    pc = "normalized" =>
        \A kj \in SynIndex :
            Search(BeforeSkill(kj[1]).text, SynOf(kj)) => CanonOf(kj) \in result.detected

\* a later entry's synonym is found after an earlier entry rewrote the text
C2_Witness ==
    /\ pc = "normalized"
    /\ \E kj \in SynIndex :
          /\ kj[1] > 1
          /\ BeforeSkill(kj[1]).text # Lower(text)
          /\ Search(BeforeSkill(kj[1]).text, SynOf(kj))
          /\ CanonOf(kj) \in result.detected

\* lit occurs in s, and every occurrence has a word character right before or
\* right after it: it is part of a larger word
EmbeddedOnly(s, lit) ==
    /\ \E i \in 1..Len(s) : MatchAtNoBoundary(s, lit, i)
    /\ \A i \in 1..Len(s) :
          MatchAtNoBoundary(s, lit, i) => WordAt(s, i - 1) \/ WordAt(s, i + Len(lit))

\* boundary matching applies: the synonym begins and ends with a word character
WordEdged(lit) == Len(lit) > 0 /\ IsWordChar(lit[1]) /\ IsWordChar(lit[Len(lit)])

\* C3 as claimed: a synonym that occurs in the input only inside larger words
\* causes no detection and no replacement: its step leaves the working state
\* as it was.
C3_EmbeddedInInput ==
    pc = "normalized" =>
        \A kj \in SynIndex :
            WordEdged(SynOf(kj)) /\ EmbeddedOnly(Lower(text), SynOf(kj)) =>
                SynStep(BeforeSyn(kj[1], kj[2]), skills_map[kj[1]].canonical,
                        skills_map[kj[1]].synonyms[kj[2]]) = BeforeSyn(kj[1], kj[2])

\* C3 as amended: a synonym that occurs only inside larger words in the working
\* text at the time it is processed causes no detection and no replacement.
C3_EmbeddedAtTurn ==
    pc = "normalized" =>
        \A kj \in SynIndex :
            WordEdged(SynOf(kj)) /\ EmbeddedOnly(BeforeSyn(kj[1], kj[2]).text, SynOf(kj)) =>
                SynStep(BeforeSyn(kj[1], kj[2]), skills_map[kj[1]].canonical,
                        skills_map[kj[1]].synonyms[kj[2]]) = BeforeSyn(kj[1], kj[2])

\* "a" inside "ab": the synonym is embedded, the text comes back lower-cased
\* and nothing is detected
C3_Witness ==
    /\ pc = "normalized"
    /\ Len(skills_map) = 1
    /\ \E kj \in SynIndex :
          /\ WordEdged(SynOf(kj))
          /\ EmbeddedOnly(Lower(text), SynOf(kj))
    /\ result.text = Lower(text)
    /\ result.detected = {}

(***************************************************************************)
(* Properties of the keyword extractor and of the parser.                  *)
(***************************************************************************)
BoundedSections ==
    /\ Len(record.must_haves) <= MustHavesCap
    /\ Len(record.nice_to_haves) <= NiceToHavesCap
    /\ Len(record.responsibilities) <= ResponsibilitiesCap

\* C4 as claimed: for any JD text, SkillMap and topKeywordCount the record has
\* at most 15 must_haves, 15 nice_to_haves, 30 responsibilities and
\* topKeywordCount keywords.
C4_BoundedAnyCount ==
    pc = "parsed" /\ raised = "" =>
        BoundedSections /\ Len(record.keywords) <= top_kw

\* C4 as amended: the same bounds for every topKeywordCount >= 0.
C4_Bounded ==
    pc = "parsed" /\ raised = "" /\ top_kw >= 0 =>
        BoundedSections /\ Len(record.keywords) <= top_kw

\* a section of more than 30 bullets and more than 30 distinct keywords: every
\* cap is reached
C4_Witness ==
    /\ pc = "parsed"
    /\ raised = ""
    /\ top_kw = DefaultTopKw
    /\ Len(_extract_bullets(Strip(text), ResponsibilitiesHeader, impl)) > ResponsibilitiesCap
    /\ Len(_top_keywords(record.normalized_text, Len(text))) > top_kw
    /\ Len(record.must_haves) = MustHavesCap
    /\ Len(record.nice_to_haves) = NiceToHavesCap
    /\ Len(record.responsibilities) = ResponsibilitiesCap
    /\ Len(record.keywords) = top_kw

\* C5: no element of the list _top_keywords returns is in the stopword set,
\* however often the word occurs in the text.
C5_NoStopwords ==
    pc = "keywords" => \A k \in 1..Len(keywords) : keywords[k] \notin _STOPWORDS

\* a stopword is the most frequent token of the text and keywords come back
C5_Witness ==
    /\ pc = "keywords"
    /\ keywords # <<>>
    /\ LET words == FindTokens(Lower(text), 1)
           Count(w) == Cardinality({i \in 1..Len(words) : words[i] = w})
       IN  \E i \in 1..Len(words) :
              /\ words[i] \in _STOPWORDS
              /\ \A j \in 1..Len(words) : Count(words[i]) >= Count(words[j])
              /\ Count(words[i]) >= 2

\* C10: with the SkillMap resource absent, parsing raises nothing, the map in
\* use is empty, normalized_text is the trimmed input lower-cased and
\* normalized_skills is empty.
C10_MissingMap ==
    pc = "parsed" /\ ~skills_file.exists =>
        /\ raised = ""
        /\ skills_map = <<>>
        /\ record.normalized_text = Lower(Strip(text))
        /\ record.normalized_skills = {}

\* the standalone parser meets the absent file (load_skills_map raises, the
\* safe load catches) on a text that trimming and lower-casing both change
C10_Witness ==
    /\ pc = "parsed"
    /\ impl = "jd_parser"
    /\ ~skills_file.exists
    /\ Strip(text) # text
    /\ Lower(Strip(text)) # Strip(text)
    /\ record.normalized_text = Lower(Strip(text))

(***************************************************************************)
(* Properties of the retriever.                                            *)
(***************************************************************************)
\* the candidates the index returned to query_snippets of the app
Returned == Query(index, Min2(MaxResults, 2 * top_k))

\* the place of document d in the list the index returned
PlaceOf(d) == CHOOSE i \in 1..Len(Returned) : Returned[i].doc = d

LoweredTags(meta) == IF meta.given THEN {Lower(t) : t \in meta.tags} ELSE {}

LoweredSkills == {Lower(x) : x \in jd_skills}

\* 1/(1+distance) + 0.25 * |tags & skills| / |tags | skills| as a fraction
\* (the union counted as 1 when it is empty)
ClaimedScore(c) ==
    LET inter == Cardinality(LoweredTags(c.meta) \cap LoweredSkills)
        union == Cardinality(LoweredTags(c.meta) \cup LoweredSkills)
        u == IF union = 0 THEN 1 ELSE union
    IN  [num |-> 4 * u + inter * (1 + c.dist), den |-> 4 * u * (1 + c.dist)]

Higher(x, y) == x.num * y.den > y.num * x.den

Same(x, y) == x.num * y.den = y.num * x.den

\* C6: for every k >= 0 query_snippets returns a list of at most k texts.
C6_TopK == pc = "queried" /\ raised = "" => Len(snippets) <= top_k

\* the index returned more candidates than top_k and top_k texts come back
C6_Witness ==
    /\ pc = "queried"
    /\ impl = "app"
    /\ top_k >= 1
    /\ Len(Returned) > top_k
    /\ Len(snippets) = top_k

C8_BonusBounds ==
    pc = "queried" /\ impl = "app" =>
        \A k \in 1..Len(boosted) :
            LET tags == LoweredTags(boosted[k].meta)
                b == boosted[k].bonus
            IN  /\ b.den > 0
                /\ 0 <= b.num
                /\ b.num <= b.den
                /\ (tags = {} \/ LoweredSkills = {} \/ tags \cap LoweredSkills = {}) => b.num = 0
                /\ (tags = LoweredSkills /\ tags # {}) => b.num = b.den

\* one candidate with bonus 1, one with a bonus strictly between 0 and 1 and
\* one without tags
C8_Witness ==
    /\ pc = "queried"
    /\ impl = "app"
    /\ \E k \in 1..Len(boosted) :
          LoweredTags(boosted[k].meta) = LoweredSkills /\ boosted[k].bonus.num = boosted[k].bonus.den
    /\ \E k \in 1..Len(boosted) :
          0 < boosted[k].bonus.num /\ boosted[k].bonus.num < boosted[k].bonus.den
    /\ \E k \in 1..Len(boosted) :
          LoweredTags(boosted[k].meta) = {} /\ boosted[k].bonus.num = 0

\* C9: with the vector index empty or unavailable query_snippets returns the
\* empty list and raises nothing.
C9_EmptyIndex ==
    pc = "queried" /\ index = <<>> => raised = "" /\ snippets = <<>>

(***************************************************************************)
(* Properties of the parsed record and of its sections.                    *)
(***************************************************************************)
OnlySpace(s) == \A i \in 1..Len(s) : IsSpace(s[i])

\* C11: parsing the empty text, or a text of white space only, returns a
\* record whose title, company, location, seniority and normalized_text are
\* empty strings and whose must_haves, nice_to_haves, responsibilities,
\* keywords and normalized_skills are empty, whatever the SkillMap.
C11_EmptyText ==
    pc = "parsed" /\ raised = "" /\ OnlySpace(text) =>
        /\ record.title = <<>>
        /\ record.company = <<>>
        /\ record.location = <<>>
        /\ record.seniority = ""
        /\ record.normalized_text = <<>>
        /\ record.must_haves = <<>>
        /\ record.nice_to_haves = <<>>
        /\ record.responsibilities = <<>>
        /\ record.keywords = <<>>
        /\ record.normalized_skills = {}

\* a text of line breaks only is parsed with a SkillMap that has an entry
C11_Witness ==
    /\ pc = "parsed"
    /\ raised = ""
    /\ text # <<>>
    /\ OnlySpace(text)
    /\ skills_map # <<>>
    /\ record.normalized_text = <<>>

\* the places where lit occurs in s as a whole word (regex \b sense)
Occurrences(s, lit) == {p \in 1..Len(s) : MatchAt(s, lit, p)}

\* the working text right after the step of synonym kj
AfterSyn(kj) ==
    SynStep(BeforeSyn(kj[1], kj[2]), skills_map[kj[1]].canonical,
            skills_map[kj[1]].synonyms[kj[2]]).text

Words(s) ==
    {SubSeq(s, r[1], r[2]) :
        r \in {x \in (1..Len(s)) \X (1..Len(s)) :
                  /\ x[1] <= x[2]
                  /\ \A y \in x[1]..x[2] : IsWordChar(s[y])
                  /\ ~WordAt(s, x[1] - 1)
                  /\ ~WordAt(s, x[2] + 1)}}

\* the canonical name and the synonyms of an entry, lower-cased
EntryStrings(e) ==
    {Lower(e.canonical)} \cup {Lower(e.synonyms[j]) : j \in 1..Len(e.synonyms)}

EntryWords(e) == UNION {Words(x) : x \in EntryStrings(e)}

\* every name and synonym begins and ends with a word character and no two
\* entries have a word in common
Separate(m) ==
    /\ \A k \in 1..Len(m) : \A x \in EntryStrings(m[k]) : WordEdged(x)
    /\ \A k, l \in 1..Len(m) : k # l => EntryWords(m[k]) \cap EntryWords(m[l]) = {}

\* C13 as claimed: the same text normalised with the same entries in another
\* order has the same detected set.
C13_AnyOrder == pc = "reordered" => result2.detected = result.detected

\* C13 as amended: the detected set is the same in every order when every
\* name and synonym begins and ends with a word character and no two entries
\* have a word in common.
C13_SeparateOrder ==
    pc = "reordered" /\ Separate(skills_map) => result2.detected = result.detected

\* two entries without a common word are both detected, in either order
C13_Witness ==
    /\ pc = "reordered"
    /\ Len(skills_map) = 2
    /\ Separate(skills_map)
    /\ Cardinality(result.detected) = 2
    /\ result.text # Lower(text)
    /\ result2.detected = result.detected

(***************************************************************************)
(* Properties of the exporter.                                             *)
(***************************************************************************)
\* the header line of a template experience, as the exporter formats it
EntryLine(e) == e.company \o <<" | ">> \o e.title \o <<" | ">> \o e.dates

\* the text t of a part is text of the template tpl for that part
FromTemplate(tpl, part, t) ==
    CASE part = "summary_bullet" ->
             \E i \in 1..Len(tpl.summary.bullets) : t = tpl.summary.bullets[i]
      [] part = "skill_key" ->
             \E i \in 1..Len(tpl.key_skills) : t = <<tpl.key_skills[i].key>>
      [] part = "skill_line" ->
             \E i \in 1..Len(tpl.key_skills) : t = JoinWith(tpl.key_skills[i].skills, <<", ">>)
      [] part = "experience_entry" ->
             \E i \in 1..Len(tpl.experience) : t = EntryLine(tpl.experience[i])
      [] part = "experience_bullet" ->
             \E i \in 1..Len(tpl.experience) :
                \E j \in 1..Len(tpl.experience[i].bullets) : t = tpl.experience[i].bullets[j]
      [] part = "achievement" ->
             \E i \in 1..Len(tpl.experience) :
                \E j \in 1..Len(tpl.experience[i].achievements) :
                   t = tpl.experience[i].achievements[j]
      [] part = "training_item" ->
             \E i \in 1..Len(tpl.training_and_education) : t = tpl.training_and_education[i]
      [] OTHER -> TRUE

\* the selection names something the template does not have
StraySelection(tpl, sel) ==
    /\ \E i \in 1..Len(sel.summary_bullets_to_keep) :
          sel.summary_bullets_to_keep[i] >= Len(tpl.summary.bullets)
    /\ \E i \in 1..Len(sel.skills_to_highlight) :
          ~HasKey(tpl.key_skills, sel.skills_to_highlight[i])
    /\ \E i \in 1..Len(sel.experience) :
          /\ sel.experience[i].include
          /\ \A j \in 1..Len(tpl.experience) : tpl.experience[j].id # sel.experience[i].id
    /\ \E i \in 1..Len(sel.training_and_education_to_keep) :
          sel.training_and_education_to_keep[i] >= Len(tpl.training_and_education)

\* C14: in template mode every summary bullet, skill line, experience entry,
\* experience bullet, achievement and training item of the document is text
\* of the template, whatever the selection holds.
C14_SelectNotInvent ==
    pc = "written" /\ cv.mode = "template" =>
        \A k \in 1..Len(doc) : FromTemplate(cv.template, doc[k].part, doc[k].text)

\* a selection with an index past the end, an unknown skill key, an unknown
\* experience id and a training index past the end, and a document that has
\* a part of every kind
C14_Witness ==
    /\ pc = "written"
    /\ cv.mode = "template"
    /\ StraySelection(cv.template, cv.selection)
    /\ \A part \in {"summary_bullet", "skill_key", "skill_line", "experience_entry",
                    "experience_bullet", "achievement", "training_item"} :
          \E k \in 1..Len(doc) : doc[k].part = part

(***************************************************************************)
(* Properties of the keyword order.                                        *)
(***************************************************************************)
\* the token stream of the text, stopwords left out
Stream == SelectSeq(FindTokens(Lower(text), 1), LAMBDA w : w \notin _STOPWORDS)

Occurs(st, w) == Cardinality({i \in 1..Len(st) : st[i] = w})

FirstSeen(st, w) == CHOOSE i \in 1..Len(st) : st[i] = w /\ \A j \in 1..(i - 1) : st[j] # w

\* v comes before w in the stream st: more frequent, or as frequent and seen
\* first
Before(st, v, w) ==
    \/ Occurs(st, v) > Occurs(st, w)
    \/ Occurs(st, v) = Occurs(st, w) /\ FirstSeen(st, v) < FirstSeen(st, w)

\* C15: the keywords are the non-stopword tokens in descending order of
\* frequency, tokens of equal frequency in the order of their first
\* occurrence, and the list is the first n entries of that ordering.
C15_KeywordOrder ==
    pc = "keywords" =>
        LET st == Stream
        IN  /\ \A k \in 1..Len(keywords) : \E i \in 1..Len(st) : st[i] = keywords[k]
            /\ \A k, l \in 1..Len(keywords) : k < l => Before(st, keywords[k], keywords[l])
            /\ \A i \in 1..Len(st) :
                  (\A k \in 1..Len(keywords) : keywords[k] # st[i]) =>
                      \A k \in 1..Len(keywords) : Before(st, keywords[k], st[i])
            /\ top_kw >= 0 =>
                  Len(keywords) = Min2(top_kw, Cardinality({st[i] : i \in 1..Len(st)}))

\* "the." and "aws" occur once each, "c++" twice and last: "c++" comes first,
\* "the." stays in front of "aws", and n = 2 cuts "aws" off
C15_Witness ==
    /\ pc = "keywords"
    /\ top_kw = 2
    /\ Stream = <<<<"t", "h", "e", ".">>, <<"a", "w", "s">>, <<"c", "+", "+">>, <<"c", "+", "+">>>>
    /\ keywords = <<<<"c", "+", "+">>, <<"t", "h", "e", ".">>>>

(***************************************************************************)
(* Seniority.                                                              *)
(***************************************************************************)
\* rule k of the seniority table matches somewhere in the stripped JD text
RuleMatches(k) == SearchWords(Strip(text), _SENIORITY_MAP[k].pat)

\* the first position in the stripped JD text where rule k matches
FirstMatchOf(k) ==
    LET s == Strip(text)
        at == {i \in 1..Len(s) :
                  \E pat \in _SENIORITY_MAP[k].pat : \E e \in MatchPatEnds(s, pat, i, 1) :
                      Boundary(s, i) /\ Boundary(s, e)}
    IN  CHOOSE i \in at : \A j \in at : i <= j

\* C16: the seniority is the label of the first rule, in the order
\* Principal/Lead, Senior, Mid, Junior, that matches anywhere in the text,
\* wherever the cues stand, and the empty string when no rule matches.
C16_SeniorityPriority ==
    (pc = "parsed" /\ raised = "") =>
        /\ \A k \in 1..Len(_SENIORITY_MAP) :
              (RuleMatches(k) /\ \A j \in 1..(k - 1) : ~RuleMatches(j)) =>
                  record.seniority = _SENIORITY_MAP[k].label
        /\ (\A k \in 1..Len(_SENIORITY_MAP) : ~RuleMatches(k)) => record.seniority = ""
        /\ <<_SENIORITY_MAP[1].label, _SENIORITY_MAP[2].label,
             _SENIORITY_MAP[3].label, _SENIORITY_MAP[4].label>>
               = <<"Principal/Lead", "Senior", "Mid", "Junior">>

\* a senior cue stands in front of a lead cue and the label is Principal/Lead
C16_Witness ==
    /\ pc = "parsed"
    /\ raised = ""
    /\ RuleMatches(1)
    /\ RuleMatches(2)
    /\ FirstMatchOf(2) < FirstMatchOf(1)
    /\ record.seniority = "Principal/Lead"

(***************************************************************************)
(* Section bullets.                                                        *)
(***************************************************************************)
\* the line begins with a bullet marker, optionally indented
BulletMarked(line) == LStrip(line) # <<>> /\ IsMarker(LStrip(line)[1])

\* the lines of the first contiguous run of bullet-marked lines behind the
\* line of the first header match: the run stops in front of the first line
\* that is not bullet-marked, blank lines included
FirstRun(t, header) ==
    LET start == HeaderStart(t, header)
        lines == SplitLines(SubSeq(t, start, Len(t)), 1)
        marked == {k \in 2..Len(lines) : BulletMarked(lines[k])}
    IN  IF start = 0 \/ marked = {} THEN <<>>
        ELSE LET b == CHOOSE k \in marked : \A j \in marked : k <= j
                 run == {e \in b..Len(lines) : \A k \in b..e : BulletMarked(lines[k])}
                 e == CHOOSE k \in run : \A j \in run : j <= k
             IN  SubSeq(lines, b, e)

\* the section of the record that header would give if the bullets were
\* those of the first run only
RunSection(header, cap) ==
    LET run == FirstRun(Strip(text), header)
        items == BulletItems(run, Len(run), impl)
    IN  PySlice(_normalize_lines(items, skills_map), cap)

\* C17: a section holds exactly the lines of the first contiguous run of
\* bullet-marked lines behind the first header match; the run ends at the first
\* non-bullet line, blank line or end of text, and bullet lines behind a
\* non-bullet line are not part of the section.
C17_FirstRunOnly ==
    (pc = "parsed" /\ raised = "") =>
        /\ record.must_haves = RunSection(MustHavesHeader, MustHavesCap)
        /\ record.nice_to_haves = RunSection(NiceToHavesHeader, NiceToHavesCap)
        /\ record.responsibilities = RunSection(ResponsibilitiesHeader, ResponsibilitiesCap)

(***************************************************************************)
(* The trim of section items.                                              *)
(***************************************************************************)
\* no white space at either end and no trailing ; , : . - or em dash
Trimmed(s) ==
    s # <<>> =>
        /\ ~IsSpace(s[1])
        /\ ~IsSpace(s[Len(s)])
        /\ s[Len(s)] \notin {";", ",", ":", ".", "-", "emdash"}

\* C18: no string returned by _clean_line or by _extract_bullets has leading
\* or trailing white space or ends with one of the characters ; , : . - or
\* em dash.
C18_NoTrailingPunctuation ==
    /\ pc = "cleaned" => Trimmed(clean_line)
    /\ pc = "extracted" => \A k \in 1..Len(bullets) : Trimmed(bullets[k])

\* C19: no element of the sequence _extract_bullets returns is the empty
\* string, also when the bullet line is only a marker followed by punctuation
\* that the trim removes.
C19_NoEmptyItems ==
    pc = "extracted" => \A k \in 1..Len(bullets) : bullets[k] # <<>>

(***************************************************************************)
(* The sections of the record.                                             *)
(***************************************************************************)
\* s with its first character upper-cased and the rest as it is
UpperFirst(s) == IF s = <<>> THEN s ELSE <<UpperChar(s[1])>> \o Tail(s)

\* the raw bullets of a section of the JD text
RawBullets(header) == _extract_bullets(Strip(text), header, impl)

\* sec is the first cap raw bullets, in order, each normalised alone and
\* its first character upper-cased
PrefixOfRaw(sec, header, cap) ==
    LET raw == RawBullets(header)
    IN  /\ Len(sec) = Min2(cap, Len(raw))
        /\ \A i \in 1..Len(sec) :
              sec[i] = UpperFirst(normalize_text(raw[i], skills_map).text)

\* C20: must_haves, nice_to_haves and responsibilities are the first 15, 15
\* and 30 raw bullets in order, item i being normalize_text of raw bullet i
\* alone with only its first character upper-cased; no item is dropped
\* before the cap.
C20_PerLineSections ==
    (pc = "parsed" /\ raised = "") =>
        /\ PrefixOfRaw(record.must_haves, MustHavesHeader, MustHavesCap)
        /\ PrefixOfRaw(record.nice_to_haves, NiceToHavesHeader, NiceToHavesCap)
        /\ PrefixOfRaw(record.responsibilities, ResponsibilitiesHeader, ResponsibilitiesCap)

\* a section of more than 30 raw bullets whose second bullet is a synonym:
\* the record keeps 15, 15 and 30 of them and the second item is the
\* canonical name, lower-cased by the normaliser and its first character
\* upper-cased again
C20_Witness ==
    /\ pc = "parsed"
    /\ raised = ""
    /\ skills_map = JdMap
    /\ Len(RawBullets(ResponsibilitiesHeader)) > ResponsibilitiesCap
    /\ RawBullets(MustHavesHeader)[2] = <<"k", "a", "b">>
    /\ Len(record.must_haves) = MustHavesCap
    /\ Len(record.nice_to_haves) = NiceToHavesCap
    /\ Len(record.responsibilities) = ResponsibilitiesCap
    /\ record.must_haves[2] = <<"A", "w", "s">>

(***************************************************************************)
(* The texts of the retriever are candidates of the index.                 *)
(***************************************************************************)
\* C22: when the index returns n candidates, query_snippets of the app
\* returns exactly min(top_k, n) texts, each the document of a returned
\* candidate of its own: no text is invented and no candidate comes back
\* more often than the index returned it.
C22_SelectionOfCandidates ==
    (pc = "queried" /\ impl = "app" /\ raised = "") =>
        /\ Len(snippets) = Min2(top_k, Len(Returned))
        /\ \E f \in [1..Len(snippets) -> 1..Len(Returned)] :
              /\ \A i \in 1..Len(snippets) : snippets[i] = Returned[f[i]].doc
              /\ \A i, j \in 1..Len(snippets) : i # j => f[i] # f[j]

\* the index returned more candidates than top_k, and the re-ranking chose a
\* text that is not the nearest candidate
C22_Witness ==
    /\ pc = "queried"
    /\ impl = "app"
    /\ raised = ""
    /\ top_k >= 1
    /\ Len(Returned) > top_k
    /\ Len(snippets) = top_k
    /\ snippets[1] # Returned[1].doc

(***************************************************************************)
(* The session cache.                                                      *)
(***************************************************************************)
\* the map the script runs load from the SkillMap resource
SessionMap == app_load_skills_map(skills_file).map

\* jd is the parse of a text with the stored hash, and snips is the
\* retrieval for that parse with one of the snippet counts
Consistent(sess) ==
    IF sess.jd_hash = <<>> THEN sess = NoSession
    ELSE \E t \in SessionTexts :
            /\ sess.jd_hash = <<_hash(t)>>
            /\ sess.jd = <<parse_jd(t, SessionMap, DefaultTopKw, "app")>>
            /\ \E c \in SnippetCounts :
                  sess.snips = <<TopDocs(Boosted(index, sess.jd[1].normalized_skills, c), c)>>

\* the state right after a script run with a generate click
AfterClick == pc \in {"generated", "failed", "stopped"}

\* C21: jd, snips and jd_hash of the session are written together: whenever
\* jd_hash is set, jd is the parse of the text with that hash and snips the
\* retrieval of that step; a generate click on a text whose hash is the
\* stored one parses nothing and leaves the three unchanged, also when the
\* snippet count is another one.
C21_SessionCache ==
    /\ Consistent(session)
    /\ AfterClick =>
          /\ session_in.jd_hash = <<_hash(text)>> => session = session_in /\ ~parsed
          /\ session # session_in =>
                /\ parsed
                /\ session.jd_hash = <<_hash(text)>>
                /\ session.jd = <<parse_jd(text, SessionMap, DefaultTopKw, "app")>>
                /\ session.snips =
                      <<TopDocs(Boosted(index, session.jd[1].normalized_skills, snippet_count),
                                snippet_count)>>

\* a generate click on the text whose hash is stored, with a snippet count
\* for which the retrieval would give another list, and the session is as
\* the run found it
C21_Witness ==
    /\ pc = "generated"
    /\ session_in.jd_hash = <<_hash(text)>>
    /\ session = session_in
    /\ ~parsed
    /\ session.snips #
          <<TopDocs(Boosted(index, session.jd[1].normalized_skills, snippet_count),
                    snippet_count)>>

====
